---- MODULE Spec2Model ----
(***************************************************************************)
(* State-machine model of the crowd-navigation simulator                   *)
(* (src/src/main.py, src/src/environment/*.py, src/src/agent/behaviors.py, *)
(* src/src/crowd_navigation/*.py).                                         *)
(*                                                                         *)
(* Arithmetic.  The program computes on Python floats.  The model computes *)
(* on fixed-point numbers: a position, velocity or distance v is held as   *)
(* the integer v * SCALE (centi-units).  Rectangles (pygame.Rect) hold     *)
(* integer world units, as in the program.  Penalties are held in tenths   *)
(* (0.1 -> 1, 0.5 -> 5, 1.0 -> 10, 1.5 -> 15).  Comparisons of a Euclidean   *)
(* distance with a threshold are made on the squares, which is exact.      *)
(***************************************************************************)
EXTENDS Integers, Sequences, FiniteSets, TLC

VARIABLES
    pc,               \* position in run() or in the function being applied
    mode,             \* main.MODE, the active ControlMode
    args,             \* the parsed command line (parse_args)
    rng,              \* the numpy Generator: None, or [seed, n] (n draws consumed)
    templates,        \* load_scenario_templates' result: the set of templates
    template,         \* current_template
    scenario,         \* the Scenario of the episode
    robot,            \* the Robot
    pedestrians,      \* the list of Pedestrian
    goal_pos,         \* the robot's goal
    total_penalty,    \* the episode's accumulated penalty (tenths)
    steps,            \* the episode's step count
    episode,          \* the episode counter
    total_penalties,  \* history: one penalty per finished episode
    total_steps,      \* history: one step count per finished episode
    frame_penalty,    \* the last value compute_penalty returned (tenths)
    loop,             \* loop counters and locals of the function being applied
                      \* (before: the object as it was at the call; tries: the
                      \* candidates _sample_extra_obstacles has drawn)
    out,              \* the value the function being applied returns / raises
    run1              \* the record of an earlier run with the same arguments

vars == <<pc, mode, args, rng, templates, template, scenario, robot, pedestrians,
          goal_pos, total_penalty, steps, episode, total_penalties, total_steps,
          frame_penalty, loop, out, run1>>

None == [none |-> TRUE]

-----------------------------------------------------------------------------
(* Fixed-point helpers *)

SCALE == 100

Abs(a) == IF a < 0 THEN -a ELSE a
Min(a, b) == IF a < b THEN a ELSE b
Max(a, b) == IF a > b THEN a ELSE b
Sq(a) == a * a
Clamp(v, lo, hi) == IF v < lo THEN lo ELSE IF v > hi THEN hi ELSE v
\* Python's int(): truncation toward zero; also the rounding of the fixed-point
\* quotient a / b.
Trunc(a, b) == IF (a < 0) = (b < 0) THEN Abs(a) \div Abs(b) ELSE -(Abs(a) \div Abs(b))

-----------------------------------------------------------------------------
(* constants.py is not among the source files; WIDTH and HEIGHT are the    *)
(* world's size in units.                                                  *)
WIDTH == 300
HEIGHT == 200

-----------------------------------------------------------------------------
(* main.py: the penalty metric *)

CLOSE_RADIUS == 48
NEAR_PENALTY == 1
OVERLAP_PENALTY_LOW == 5
OVERLAP_PENALTY_MID == 10
OVERLAP_PENALTY_HIGH == 15

\* pygame.Vector2(a.x - b.x, a.y - b.y).length(), squared, in centi-units squared
Dist2(a, b) == Sq(a.x - b.x) + Sq(a.y - b.y)

\* distance < r for r in world units
DistLess(d2, r) == r > 0 /\ d2 < Sq(r * SCALE)

\* (overlap_distance - distance) / overlap_distance < pct / 100, for
\* distance < overlap_distance: equivalently (100 - pct) * R < 100 * distance
RatioLess(d2, R, pct) == Sq((100 - pct) * R) < d2

\* A mutant of the loop body: the near band has no upper limit.
PenaltyOfNearUnbounded(rb, ped) ==
    LET d2 == Dist2(rb, ped)
        R == rb.radius + ped.radius
    IN  IF DistLess(d2, R)
        THEN IF RatioLess(d2, R, 33) THEN OVERLAP_PENALTY_LOW
             ELSE IF RatioLess(d2, R, 66) THEN OVERLAP_PENALTY_MID
             ELSE OVERLAP_PENALTY_HIGH
        ELSE NEAR_PENALTY

\* A mutant of the loop body: the ratio comparisons are <= instead of <.
PenaltyOfRatioLeq(rb, ped) ==
    LET d2 == Dist2(rb, ped)
        R == rb.radius + ped.radius
    IN  IF DistLess(d2, R)
        THEN IF Sq(67 * R) <= d2 THEN OVERLAP_PENALTY_LOW
             ELSE IF Sq(34 * R) <= d2 THEN OVERLAP_PENALTY_MID
             ELSE OVERLAP_PENALTY_HIGH
        ELSE IF DistLess(d2, CLOSE_RADIUS) THEN NEAR_PENALTY
        ELSE 0

\* A mutant of the loop body: the middle tier is charged like the high tier.
PenaltyOfNoMidTier(rb, ped) ==
    LET d2 == Dist2(rb, ped)
        R == rb.radius + ped.radius
    IN  IF DistLess(d2, R)
        THEN IF RatioLess(d2, R, 33) THEN OVERLAP_PENALTY_LOW
             ELSE OVERLAP_PENALTY_HIGH
        ELSE IF DistLess(d2, CLOSE_RADIUS) THEN NEAR_PENALTY
        ELSE 0

\* The body of compute_penalty's loop: what one pedestrian adds.
PenaltyOf(rb, ped) ==
    LET d2 == Dist2(rb, ped)
        R == rb.radius + ped.radius
    IN  IF DistLess(d2, R)
        THEN IF RatioLess(d2, R, 33) THEN OVERLAP_PENALTY_LOW
             ELSE IF RatioLess(d2, R, 66) THEN OVERLAP_PENALTY_MID
             ELSE OVERLAP_PENALTY_HIGH
        ELSE IF DistLess(d2, CLOSE_RADIUS) THEN NEAR_PENALTY
        ELSE 0

RECURSIVE PenaltyLoop(_, _, _, _)
PenaltyLoop(rb, peds, k, acc) ==
    IF k > Len(peds) THEN acc
    ELSE PenaltyLoop(rb, peds, k + 1, acc + PenaltyOf(rb, peds[k]))

compute_penalty(rb, peds) == PenaltyLoop(rb, peds, 1, 0)

-----------------------------------------------------------------------------
(* environment/pedestrian.py, environment/robot.py: the records *)

\* Pedestrian(x, y, vx, vy, goal_x, goal_y) with the dataclass defaults
Pedestrian(x, y, vx, vy, gx, gy) ==
    [x |-> x, y |-> y, vx |-> vx, vy |-> vy, goal_x |-> gx, goal_y |-> gy,
     radius |-> 10, desired_speed |-> 150, relaxation_time |-> 30,
     max_speed |-> 300, ped_A |-> 800, ped_B |-> 8, wall_A |-> 0, wall_B |-> 5]

\* Robot(x, y) with the dataclass defaults
Robot(x, y) == [x |-> x, y |-> y, speed |-> 300, radius |-> 12]

-----------------------------------------------------------------------------
(* The numpy Generator.  rng = [seed, n]: n is the number of draws consumed. *)
(* A draw is a number u / UDEN of [0, 1): integers(lo, hi) returns          *)
(* lo + floor(u * (hi - lo) / UDEN), uniform(lo, hi) returns                *)
(* lo + u * (hi - lo) / UDEN.  A generator seeded with seed >= 0 yields the  *)
(* fixed stream Stream(seed, 0), Stream(seed, 1), ...; a generator of       *)
(* unknown state (seed < 0: seeded from entropy, or the argument of a       *)
(* function applied on its own) yields any draw.                            *)

UDEN == 100
Draws == {0, 50, 99}

\* a stand-in for PCG64: some fixed function of the seed and the draw's index
Stream(seed, n) ==
    LET h == (seed * 7 + n * 5 + (n \div 3) + seed * n) % 3
    IN  CASE h = 0 -> 0 [] h = 1 -> 99 [] OTHER -> 50

\* the values the k-th next draw of generator g may return
DrawSet(g, k) == IF g.seed < 0 THEN Draws ELSE {Stream(g.seed, g.n + k)}

\* the generator after k draws
Advance(g, k) == [g EXCEPT !.n = g.n + k]

\* int(rng.integers(lo, hi)) for the draw u: an integer of lo .. hi - 1
integers(lo, hi, u) == lo + (u * (hi - lo)) \div UDEN

\* float(rng.uniform(lo, hi)) for the draw u: low + (high - low) * u
uniform(lo, hi, u) == lo + Trunc(u * (hi - lo), UDEN)

\* a generator of unknown state
AnyRng == [seed |-> -1, n |-> 0]

-----------------------------------------------------------------------------
(* environment/scenarios.py: rectangles *)

Rect(x, y, w, h) == [x |-> x, y |-> y, w |-> w, h |-> h]
Left(r) == r.x
Right(r) == r.x + r.w
Top(r) == r.y
Bottom(r) == r.y + r.h

\* pygame.Rect.colliderect: the rectangles overlap in an area (touching edges
\* do not collide; a rectangle of no width or height collides with nothing)
colliderect(a, b) ==
    /\ a.w # 0 /\ a.h # 0 /\ b.w # 0 /\ b.h # 0
    /\ Min(a.x, a.x + a.w) < Max(b.x, b.x + b.w)
    /\ Min(a.y, a.y + a.h) < Max(b.y, b.y + b.h)
    /\ Max(a.x, a.x + a.w) > Min(b.x, b.x + b.w)
    /\ Max(a.y, a.y + a.h) > Min(b.y, b.y + b.h)

\* pygame.Rect.inflate(dw, dh): grown by dw, dh around its centre
inflate(r, dw, dh) == Rect(r.x - dw \div 2, r.y - dh \div 2, r.w + dw, r.h + dh)

\* A mutant of _rect_to_safe_bounds: the size has no floor of 20.
RectToSafeBoundsNoFloor(x, y, w, h) ==
    LET w2 == Min(w, WIDTH - 20)
        h2 == Min(h, HEIGHT - 20)
    IN  Rect(Max(0, Min(x, WIDTH - w2)), Max(0, Min(y, HEIGHT - h2)), w2, h2)

_rect_to_safe_bounds(x, y, w, h) ==
    LET w2 == Max(20, Min(w, WIDTH - 20))
        h2 == Max(20, Min(h, HEIGHT - 20))
    IN  Rect(Max(0, Min(x, WIDTH - w2)), Max(0, Min(y, HEIGHT - h2)), w2, h2)

\* A mutant of _randomized_obstacle: the jittered rectangle is returned as it
\* is, without _rect_to_safe_bounds.
RandomizedObstacleNoClamp(rect, position_jitter, size_jitter, u1, u2, u3, u4) ==
    Rect(IF position_jitter > 0
         THEN rect.x + integers(-position_jitter, position_jitter + 1, u1) ELSE rect.x,
         IF position_jitter > 0
         THEN rect.y + integers(-position_jitter, position_jitter + 1, u2) ELSE rect.y,
         IF size_jitter > 0
         THEN rect.w + integers(-size_jitter, size_jitter + 1, u3) ELSE rect.w,
         IF size_jitter > 0
         THEN rect.h + integers(-size_jitter, size_jitter + 1, u4) ELSE rect.h)

\* _randomized_obstacle for the draws u1 .. u4 (a draw is consumed only where
\* the jitter is positive)
_randomized_obstacle(rect, position_jitter, size_jitter, u1, u2, u3, u4) ==
    LET x == IF position_jitter > 0
             THEN rect.x + integers(-position_jitter, position_jitter + 1, u1)
             ELSE rect.x
        y == IF position_jitter > 0
             THEN rect.y + integers(-position_jitter, position_jitter + 1, u2)
             ELSE rect.y
        w == IF size_jitter > 0
             THEN rect.w + integers(-size_jitter, size_jitter + 1, u3)
             ELSE rect.w
        h == IF size_jitter > 0
             THEN rect.h + integers(-size_jitter, size_jitter + 1, u4)
             ELSE rect.h
    IN  _rect_to_safe_bounds(x, y, w, h)

\* the number of draws _randomized_obstacle consumes
JitterDraws(position_jitter, size_jitter) ==
    (IF position_jitter > 0 THEN 2 ELSE 0) + (IF size_jitter > 0 THEN 2 ELSE 0)

\* _circle_hits_rect: center a point in world units
_circle_hits_rect(center, radius, rect) ==
    LET closest_x == Max(Left(rect), Min(center.x, Right(rect)))
        closest_y == Max(Top(rect), Min(center.y, Bottom(rect)))
        dx == center.x - closest_x
        dy == center.y - closest_y
    IN  dx * dx + dy * dy <= radius * radius

-----------------------------------------------------------------------------
(* environment/scenarios.py: build_scenario, one action per step.  The     *)
(* function's locals (obstacles / out, count, the loop indices) are held   *)
(* in loop; loop.ret names the caller.                                     *)

Point(x, y) == [x |-> x, y |-> y]

\* Scenario(...) as build_scenario constructs it from the template
Scenario(t, obstacles) ==
    [scenario_id |-> t.scenario_id,
     robot_start |-> t.robot_start,
     robot_goal |-> t.robot_goal,
     obstacles |-> obstacles,
     pedestrian_spawn_regions |-> t.pedestrian_spawn_regions,
     pedestrian_goal_regions |-> t.pedestrian_goal_regions]

MaxAttempts == 30
SafetyRadius == 45
InflateMargin == 20

\* build_scenario, randomize_world false: the base rectangles, clamped
BuildScenarioFixed ==
    /\ pc = "build_scenario"
    /\ ~args.random_world
    /\ loop' = [loop EXCEPT !.obstacles =
                  [k \in 1..Len(template.obstacles) |->
                      _rect_to_safe_bounds(template.obstacles[k].x, template.obstacles[k].y,
                                           template.obstacles[k].w, template.obstacles[k].h)]]
    /\ pc' = "scenario_return"
    /\ UNCHANGED <<run1, mode, args, rng, templates, template, scenario, robot, pedestrians,
                   goal_pos, total_penalty, steps, episode, total_penalties,
                   total_steps, frame_penalty, out>>

\* build_scenario, randomize_world true: enter the list comprehension
BuildScenarioRandom ==
    /\ pc = "build_scenario"
    /\ args.random_world
    /\ loop' = [loop EXCEPT !.obstacles = <<>>, !.i = 1]
    /\ pc' = "jitter"
    /\ UNCHANGED <<run1, mode, args, rng, templates, template, scenario, robot, pedestrians,
                   goal_pos, total_penalty, steps, episode, total_penalties,
                   total_steps, frame_penalty, out>>

\* one element of the comprehension: _randomized_obstacle of base rectangle i
JitterObstacle ==
    /\ pc = "jitter"
    /\ loop.i <= Len(template.obstacles)
    /\ LET pj == template.obstacle_jitter_px
           sj == template.obstacle_size_jitter_px
           s0 == IF pj > 0 THEN 2 ELSE 0
       IN  \E u1 \in (IF pj > 0 THEN DrawSet(rng, 0) ELSE {0}),
              u2 \in (IF pj > 0 THEN DrawSet(rng, 1) ELSE {0}),
              u3 \in (IF sj > 0 THEN DrawSet(rng, s0) ELSE {0}),
              u4 \in (IF sj > 0 THEN DrawSet(rng, s0 + 1) ELSE {0}) :
             /\ loop' = [loop EXCEPT
                           !.obstacles = Append(@, _randomized_obstacle(
                                template.obstacles[loop.i], pj, sj, u1, u2, u3, u4)),
                           !.i = @ + 1]
             /\ rng' = Advance(rng, JitterDraws(pj, sj))
    /\ pc' = "jitter"
    /\ UNCHANGED <<run1, mode, args, templates, template, scenario, robot, pedestrians,
                   goal_pos, total_penalty, steps, episode, total_penalties,
                   total_steps, frame_penalty, out>>

\* the comprehension is exhausted: call _sample_extra_obstacles
JitterDone ==
    /\ pc = "jitter"
    /\ loop.i > Len(template.obstacles)
    /\ pc' = "extras"
    /\ UNCHANGED <<run1, mode, args, rng, templates, template, scenario, robot, pedestrians,
                   goal_pos, total_penalty, steps, episode, total_penalties,
                   total_steps, frame_penalty, loop, out>>

\* _sample_extra_obstacles up to its loops: out = list(obstacles), the early
\* return, the draw of count
SampleExtrasBegin ==
    /\ pc = "extras"
    /\ LET extra_min == template.extra_obstacle_range[1]
           extra_max == template.extra_obstacle_range[2]
       IN  IF extra_max <= 0
           THEN /\ pc' = "scenario_return"
                /\ loop' = [loop EXCEPT !.tries = 0, !.before = loop.obstacles]
                /\ UNCHANGED rng
           ELSE \E u \in DrawSet(rng, 0) :
                  LET count == integers(extra_min, extra_max + 1, u)
                  IN  /\ loop' = [loop EXCEPT !.count = count, !.i = 0, !.attempt = 0,
                                              !.tries = 0, !.before = loop.obstacles]
                      /\ rng' = Advance(rng, 1)
                      /\ pc' = IF count > 0 THEN "attempt" ELSE "scenario_return"
    /\ UNCHANGED <<run1, mode, args, templates, template, scenario, robot, pedestrians,
                   goal_pos, total_penalty, steps, episode, total_penalties,
                   total_steps, frame_penalty, out>>

\* the candidate rectangle of one attempt, for the draws u1 .. u4
ExtraCandidate(t, u1, u2, u3, u4) ==
    LET min_size == t.random_obstacle_size_range[1]
        max_size == t.random_obstacle_size_range[2]
        w == integers(min_size, max_size + 1, u1)
        h == integers(min_size, max_size + 1, u2)
        x == integers(0, Max(1, WIDTH - w), u3)
        y == integers(0, Max(1, HEIGHT - h), u4)
    IN  _rect_to_safe_bounds(x, y, w, h)

\* A mutant of ExtraRejected: the goal disk is not tested.
ExtraRejectedNoGoalTest(t, existing, rect) ==
    \/ _circle_hits_rect(t.robot_start, SafetyRadius, rect)
    \/ \E k \in 1..Len(existing) :
          colliderect(rect, inflate(existing[k], InflateMargin, InflateMargin))

\* A mutant of ExtraRejected: the obstacles already in the list are not tested.
ExtraRejectedNoCollideTest(t, existing, rect) ==
    \/ _circle_hits_rect(t.robot_start, SafetyRadius, rect)
    \/ _circle_hits_rect(t.robot_goal, SafetyRadius, rect)

\* the three tests that make an attempt `continue`
ExtraRejected(t, existing, rect) ==
    \/ _circle_hits_rect(t.robot_start, SafetyRadius, rect)
    \/ _circle_hits_rect(t.robot_goal, SafetyRadius, rect)
    \/ \E k \in 1..Len(existing) :
          colliderect(rect, inflate(existing[k], InflateMargin, InflateMargin))

\* one attempt of the inner loop for extra obstacle i: a rejected candidate
\* goes to the next attempt, or after MaxAttempts to the next obstacle; an
\* accepted one is appended
ExtraAttempt ==
    /\ pc = "attempt"
    /\ \E u1 \in DrawSet(rng, 0), u2 \in DrawSet(rng, 1),
          u3 \in DrawSet(rng, 2), u4 \in DrawSet(rng, 3) :
         LET rect == ExtraCandidate(template, u1, u2, u3, u4)
             rejected == ExtraRejected(template, loop.obstacles, rect)
             next_obstacle == ~rejected \/ loop.attempt + 1 >= MaxAttempts
         IN  /\ loop' = [loop EXCEPT
                           !.obstacles = IF rejected THEN @ ELSE Append(@, rect),
                           !.attempt = IF next_obstacle THEN 0 ELSE @ + 1,
                           !.i = IF next_obstacle THEN @ + 1 ELSE @,
                           !.tries = @ + 1]
             /\ pc' = IF next_obstacle /\ loop.i + 1 >= loop.count
                      THEN "scenario_return" ELSE "attempt"
    /\ rng' = Advance(rng, 4)
    /\ UNCHANGED <<run1, mode, args, templates, template, scenario, robot, pedestrians,
                   goal_pos, total_penalty, steps, episode, total_penalties,
                   total_steps, frame_penalty, out>>

\* return Scenario(...)
ScenarioReturn ==
    /\ pc = "scenario_return"
    /\ scenario' = Scenario(template, loop.obstacles)
    /\ pc' = IF loop.ret = "function" THEN "scenario_built" ELSE "make_robot"
    /\ UNCHANGED <<run1, mode, args, rng, templates, template, robot, pedestrians,
                   goal_pos, total_penalty, steps, episode, total_penalties,
                   total_steps, frame_penalty, loop, out>>

build_scenario ==
    \/ BuildScenarioFixed
    \/ BuildScenarioRandom
    \/ JitterObstacle
    \/ JitterDone
    \/ SampleExtrasBegin
    \/ ExtraAttempt
    \/ ScenarioReturn

-----------------------------------------------------------------------------
(* scenarios.py: random_point_in_region, random_pedestrian_route;          *)
(* main.py: generate_pedestrians, one action per iteration.                *)

Margin == 12

\* random_point_in_region's bounds (world units) on one axis of a region
\* that spans lo .. lo + size
SampleLow(lo, size) == lo + Margin
SampleHigh(lo, size) == lo + size - Margin

\* rng.uniform(low, high) is called with low > high: numpy leaves the result
\* open - Generator.uniform raises ValueError("high - low < 0") where it checks
\* the range, and returns low + (high - low) * u where it does not.
Inverted(region) ==
    \/ SampleLow(region.x, region.w) > SampleHigh(region.x, region.w)
    \/ SampleLow(region.y, region.h) > SampleHigh(region.y, region.h)

\* random_point_in_region(region, rng) for the draws ux, uy, in centi-units
random_point_in_region(region, ux, uy) ==
    Point(uniform(SampleLow(region.x, region.w) * SCALE,
                  SampleHigh(region.x, region.w) * SCALE, ux),
          uniform(SampleLow(region.y, region.h) * SCALE,
                  SampleHigh(region.y, region.h) * SCALE, uy))

\* the draws random_pedestrian_route has made when rng.uniform raises
RaiseDraws(sr, gr) ==
    IF SampleLow(sr.x, sr.w) > SampleHigh(sr.x, sr.w) THEN 2
    ELSE IF SampleLow(sr.y, sr.h) > SampleHigh(sr.y, sr.h) THEN 3
    ELSE IF SampleLow(gr.x, gr.w) > SampleHigh(gr.x, gr.w) THEN 4
    ELSE 5

\* the indices random_pedestrian_route draws for the two regions
RouteSpawnIndex(sc, u) == 1 + integers(0, Len(sc.pedestrian_spawn_regions), u)
RouteGoalIndex(sc, u) == 1 + integers(0, Len(sc.pedestrian_goal_regions), u)

\* peds = []
GenerateBegin ==
    /\ pc = "generate_pedestrians"
    /\ pedestrians' = <<>>
    /\ loop' = [loop EXCEPT !.i = 0, !.regions = <<>>]
    /\ pc' = "gen_loop"
    /\ UNCHANGED <<run1, mode, args, rng, templates, template, scenario, robot,
                   goal_pos, total_penalty, steps, episode, total_penalties,
                   total_steps, frame_penalty, out>>

\* one iteration of generate_pedestrians' loop: random_pedestrian_route, then
\* the Pedestrian is appended
GeneratePedestrian ==
    /\ pc = "gen_loop"
    /\ loop.i < args.pedestrians
    /\ \E u1 \in DrawSet(rng, 0), u2 \in DrawSet(rng, 1), u3 \in DrawSet(rng, 2),
          u4 \in DrawSet(rng, 3), u5 \in DrawSet(rng, 4), u6 \in DrawSet(rng, 5) :
         LET si == RouteSpawnIndex(scenario, u1)
             gi == RouteGoalIndex(scenario, u2)
             spawn == random_point_in_region(scenario.pedestrian_spawn_regions[si], u3, u4)
             goal == random_point_in_region(scenario.pedestrian_goal_regions[gi], u5, u6)
         IN  /\ pedestrians' = Append(pedestrians,
                                      Pedestrian(spawn.x, spawn.y, 0, 0, goal.x, goal.y))
             /\ loop' = [loop EXCEPT !.i = @ + 1, !.regions = Append(@, si)]
    /\ rng' = Advance(rng, 6)
    /\ pc' = "gen_loop"
    /\ UNCHANGED <<run1, mode, args, templates, template, scenario, robot,
                   goal_pos, total_penalty, steps, episode, total_penalties,
                   total_steps, frame_penalty, out>>

\* one iteration of generate_pedestrians' loop in which rng.uniform raises:
\* the sampled spawn or goal region is narrower than twice the margin
GeneratePedestrianRaises ==
    /\ pc = "gen_loop"
    /\ loop.i < args.pedestrians
    /\ \E u1 \in DrawSet(rng, 0), u2 \in DrawSet(rng, 1) :
         LET si == RouteSpawnIndex(scenario, u1)
             gi == RouteGoalIndex(scenario, u2)
             sr == scenario.pedestrian_spawn_regions[si]
             gr == scenario.pedestrian_goal_regions[gi]
         IN  /\ Inverted(sr) \/ Inverted(gr)
             /\ loop' = [loop EXCEPT !.regions = Append(@, si)]
             /\ rng' = Advance(rng, RaiseDraws(sr, gr))
    /\ out' = [raised |-> "ValueError"]
    /\ pc' = "raised"
    /\ UNCHANGED <<run1, mode, args, templates, template, scenario, robot, pedestrians,
                   goal_pos, total_penalty, steps, episode, total_penalties,
                   total_steps, frame_penalty>>

\* return peds
GenerateReturn ==
    /\ pc = "gen_loop"
    /\ loop.i >= args.pedestrians
    /\ pc' = IF loop.ret = "function" THEN "generated" ELSE "make_goal"
    /\ UNCHANGED <<run1, mode, args, rng, templates, template, scenario, robot, pedestrians,
                   goal_pos, total_penalty, steps, episode, total_penalties,
                   total_steps, frame_penalty, loop, out>>

generate_pedestrians ==
    \/ GenerateBegin
    \/ GeneratePedestrian
    \/ GeneratePedestrianRaises
    \/ GenerateReturn

-----------------------------------------------------------------------------
(* environment/pedestrian.py: the social-force update.  math.hypot and     *)
(* math.exp are computed in fixed point: hypot by an integer square root,  *)
(* exp by interpolation in a table of e^k.                                 *)

RECURSIVE SqrtSearch(_, _, _)
SqrtSearch(n, lo, hi) ==
    IF lo >= hi THEN lo
    ELSE LET mid == (lo + hi + 1) \div 2
         IN  IF mid * mid <= n THEN SqrtSearch(n, mid, hi) ELSE SqrtSearch(n, lo, mid - 1)

\* math.hypot(dx, dy), rounded down and rounded up
hypot(dx, dy) == SqrtSearch(dx * dx + dy * dy, 0, 46340)
hypotUp(dx, dy) ==
    LET r == hypot(dx, dy) IN IF r * r = dx * dx + dy * dy THEN r ELSE r + 1

\* 100 * e^k for k = -8 .. 5
ExpTable == <<0, 0, 0, 1, 2, 5, 14, 37, 100, 272, 739, 2009, 5460, 14841>>

\* SCALE * math.exp(t / SCALE); the argument is cut to [-8, 5]
exp(t) ==
    LET c == Clamp(t, -8 * SCALE, 5 * SCALE)
        k == IF c = 5 * SCALE THEN 4 ELSE (c + 8 * SCALE) \div SCALE - 8
        f == c - k * SCALE
        e0 == ExpTable[k + 9]
        e1 == ExpTable[k + 10]
    IN  e0 + (f * (e1 - e0)) \div SCALE

\* the unit vector's component d / dist in thousandths (dist > 0)
UnitMilli(d, dist) == Trunc(d * 1000, dist)

_self_driving_force(p) ==
    LET dx == p.goal_x - p.x
        dy == p.goal_y - p.y
        dist == hypot(dx, dy)
    IN  IF dist = 0 THEN Point(0, 0)
        ELSE Point(Trunc(Trunc(p.desired_speed * UnitMilli(dx, dist), 1000) - p.vx,
                         p.relaxation_time),
                   Trunc(Trunc(p.desired_speed * UnitMilli(dy, dist), 1000) - p.vy,
                         p.relaxation_time))

\* what the other pedestrian o adds to p's repulsion
RepulsionFrom(p, o) ==
    LET dx == p.x - o.x
        dy == p.y - o.y
        dist == hypot(dx, dy)
        r_ij == p.radius + o.radius
        magnitude == Trunc(p.ped_A * exp(Trunc(r_ij * SCALE - dist, p.ped_B)), SCALE)
    IN  IF dist = 0 THEN Point(0, 0)
        ELSE Point(Trunc(magnitude * UnitMilli(dx, dist), 1000),
                   Trunc(magnitude * UnitMilli(dy, dist), 1000))

RECURSIVE RepulsionLoop(_, _, _, _)
RepulsionLoop(others, self, k, acc) ==
    IF k > Len(others) THEN acc
    ELSE IF k = self \/ others[k].y > (HEIGHT + others[k].radius) * SCALE
    THEN RepulsionLoop(others, self, k + 1, acc)
    ELSE LET f == RepulsionFrom(others[self], others[k])
         IN  RepulsionLoop(others, self, k + 1, Point(acc.x + f.x, acc.y + f.y))

\* self._pedestrian_repulsion(others), self being others[self]
_pedestrian_repulsion(others, self) == RepulsionLoop(others, self, 1, Point(0, 0))

\* the two walls are the left and the right edge of the world
_wall_repulsion(p) ==
    LET left == Trunc(p.wall_A * exp(Trunc(p.radius * SCALE - p.x, p.wall_B)), SCALE)
        right == Trunc(p.wall_A * exp(Trunc(p.radius * SCALE - (WIDTH * SCALE - p.x),
                                            p.wall_B)), SCALE)
    IN  Point(left - right, 0)

\* the velocity after the forces are added and the magnitude is capped
CappedVelocity(vx, vy, max_speed) ==
    IF vx * vx + vy * vy > max_speed * max_speed
    THEN LET speed == hypotUp(vx, vy)
         IN  Point(Trunc(vx * max_speed, speed), Trunc(vy * max_speed, speed))
    ELSE Point(vx, vy)

\* the hitbox of a disk of the given radius centred at (x, y)
Hitbox(x, y, radius) ==
    Rect(Trunc(x - radius * SCALE, SCALE), Trunc(y - radius * SCALE, SCALE),
         radius * 2, radius * 2)

_would_collide(p, x, y, obstacles) ==
    \E k \in 1..Len(obstacles) : colliderect(Hitbox(x, y, p.radius), obstacles[k])

\* the final clamp of a coordinate to [radius, size - radius]
ClampToWorld(v, radius, size) ==
    Max(radius * SCALE, Min((size - radius) * SCALE, v))

\* both axes are blocked: the branch of update that draws from rng
BothBlocked(p, v, obstacles) ==
    /\ Len(obstacles) > 0
    /\ _would_collide(p, p.x + v.x, p.y + v.y, obstacles)
    /\ _would_collide(p, p.x + v.x, p.y, obstacles)
    /\ _would_collide(p, p.x, p.y + v.y, obstacles)

\* the velocity update() gives others[self]: forces, then the cap
UpdatedVelocity(others, self) ==
    LET p == others[self]
        f1 == _self_driving_force(p)
        f2 == _pedestrian_repulsion(others, self)
        f3 == _wall_repulsion(p)
    IN  CappedVelocity(p.vx + f1.x + f2.x + f3.x, p.vy + f1.y + f2.y + f3.y, p.max_speed)

\* A mutant of update: the final clamp is left out.
UpdateNoClamp(others, self, obstacles, u1, u2) ==
    LET p == others[self]
        v == UpdatedVelocity(others, self)
    IN  [p EXCEPT !.vx = v.x, !.vy = v.y, !.x = @ + v.x, !.y = @ + v.y]

\* A mutant of update: a blocked pedestrian does not slide, it stays where it
\* was.
UpdateNoSlide(others, self, obstacles, u1, u2) ==
    LET p == others[self]
        v == UpdatedVelocity(others, self)
        moved ==
            IF _would_collide(p, p.x + v.x, p.y + v.y, obstacles)
            THEN [p EXCEPT !.vx = v.x, !.vy = v.y]
            ELSE [p EXCEPT !.vx = v.x, !.vy = v.y, !.x = @ + v.x, !.y = @ + v.y]
    IN  [moved EXCEPT !.x = ClampToWorld(moved.x, p.radius, WIDTH),
                      !.y = ClampToWorld(moved.y, p.radius, HEIGHT)]

\* Pedestrian.update(others, obstacles, rng) of others[self]; u1, u2 are the
\* draws of the both-axes-blocked branch
update(others, self, obstacles, u1, u2) ==
    LET p == others[self]
        v == UpdatedVelocity(others, self)
        proposed_x == p.x + v.x
        proposed_y == p.y + v.y
        bvx == Trunc(v.x * (-4), 10) + uniform(-20, 20, u1)
        bvy == Trunc(v.y * (-4), 10) + uniform(-20, 20, u2)
        moved ==
            IF Len(obstacles) > 0 /\ _would_collide(p, proposed_x, proposed_y, obstacles)
            THEN IF ~_would_collide(p, proposed_x, p.y, obstacles)
                 THEN [p EXCEPT !.vx = v.x, !.vy = v.y, !.x = proposed_x]
                 ELSE IF ~_would_collide(p, p.x, proposed_y, obstacles)
                 THEN [p EXCEPT !.vx = v.x, !.vy = v.y, !.y = proposed_y]
                 ELSE [p EXCEPT !.vx = bvx, !.vy = bvy, !.x = p.x + bvx, !.y = p.y + bvy]
            ELSE [p EXCEPT !.vx = v.x, !.vy = v.y, !.x = proposed_x, !.y = proposed_y]
    IN  [moved EXCEPT !.x = ClampToWorld(moved.x, p.radius, WIDTH),
                      !.y = ClampToWorld(moved.y, p.radius, HEIGHT)]

\* has_reached_goal(threshold = 15.0)
has_reached_goal(p) == Sq(p.goal_x - p.x) + Sq(p.goal_y - p.y) < Sq(15 * SCALE)

\* one iteration of main.run's `for ped in pedestrians: ped.update(...)`;
\* loop.before keeps the pedestrian as it was when update was called
UpdatePedestrian ==
    /\ pc = "update_peds"
    /\ loop.i <= Len(pedestrians)
    /\ LET blocked == BothBlocked(pedestrians[loop.i],
                                  UpdatedVelocity(pedestrians, loop.i), scenario.obstacles)
       IN  \E u1 \in (IF blocked THEN DrawSet(rng, 0) ELSE {0}),
              u2 \in (IF blocked THEN DrawSet(rng, 1) ELSE {0}) :
             /\ pedestrians' = [pedestrians EXCEPT ![loop.i] =
                                   update(pedestrians, loop.i, scenario.obstacles, u1, u2)]
             /\ rng' = Advance(rng, IF blocked THEN 2 ELSE 0)
    /\ loop' = [loop EXCEPT !.i = @ + 1, !.before = pedestrians[loop.i]]
    /\ pc' = "update_peds"
    /\ UNCHANGED <<run1, mode, args, templates, template, scenario, robot,
                   goal_pos, total_penalty, steps, episode, total_penalties,
                   total_steps, frame_penalty, out>>

\* A mutant of UpdateDone: the run goes on to the penalty without
\* reassign_reached_goals.
UpdateDoneSkipsReassign ==
    /\ pc = "update_peds"
    /\ loop.i > Len(pedestrians)
    /\ pc' = IF loop.ret = "function" THEN "updated" ELSE "penalty"
    /\ loop' = [loop EXCEPT !.i = 1, !.before = None]
    /\ UNCHANGED <<run1, mode, args, rng, templates, template, scenario, robot, pedestrians,
                   goal_pos, total_penalty, steps, episode, total_penalties,
                   total_steps, frame_penalty, out>>

\* the loop over the pedestrians is exhausted
UpdateDone ==
    /\ pc = "update_peds"
    /\ loop.i > Len(pedestrians)
    /\ pc' = IF loop.ret = "function" THEN "updated" ELSE "reassign"
    /\ loop' = [loop EXCEPT !.i = 1, !.before = None]
    /\ UNCHANGED <<run1, mode, args, rng, templates, template, scenario, robot, pedestrians,
                   goal_pos, total_penalty, steps, episode, total_penalties,
                   total_steps, frame_penalty, out>>

-----------------------------------------------------------------------------
(* crowd_navigation/pedestrian.py, crowd_navigation/main.py: the           *)
(* simplified, boundary-only pedestrian.  Its forces are those of          *)
(* environment/pedestrian.py; its update has no obstacle and no clamp; its *)
(* draws come from Python's random module.                                 *)

\* crowd_navigation Pedestrian.update(others) of others[self]
simple_update(others, self) ==
    LET p == others[self]
        v == UpdatedVelocity(others, self)
    IN  [p EXCEPT !.vx = v.x, !.vy = v.y, !.x = @ + v.x, !.y = @ + v.y]

\* crowd_navigation Pedestrian.respawn() for the draws u1, u2
respawn(p, u1, u2) ==
    [p EXCEPT !.x = uniform(p.radius * SCALE, (WIDTH - p.radius) * SCALE, u1),
              !.y = (HEIGHT + p.radius) * SCALE,
              !.vx = 0,
              !.vy = 0,
              !.goal_x = uniform(p.radius * SCALE, (WIDTH - p.radius) * SCALE, u2)]

\* one iteration of crowd_navigation run's `for ped in pedestrians: ped.update(pedestrians)`
SimpleUpdatePedestrian ==
    /\ pc = "simple_update_peds"
    /\ loop.i <= Len(pedestrians)
    /\ pedestrians' = [pedestrians EXCEPT ![loop.i] = simple_update(pedestrians, loop.i)]
    /\ loop' = [loop EXCEPT !.i = @ + 1]
    /\ UNCHANGED <<run1, pc, mode, args, rng, templates, template, scenario, robot,
                   goal_pos, total_penalty, steps, episode, total_penalties,
                   total_steps, frame_penalty, out>>

SimpleUpdateDone ==
    /\ pc = "simple_update_peds"
    /\ loop.i > Len(pedestrians)
    /\ loop' = [loop EXCEPT !.i = 1]
    /\ pc' = "simple_reassign"
    /\ UNCHANGED <<run1, mode, args, rng, templates, template, scenario, robot, pedestrians,
                   goal_pos, total_penalty, steps, episode, total_penalties,
                   total_steps, frame_penalty, out>>

\* one iteration of crowd_navigation reassign_reached_goals
SimpleReassign ==
    /\ pc = "simple_reassign"
    /\ loop.i <= Len(pedestrians)
    /\ IF has_reached_goal(pedestrians[loop.i])
       THEN \E u1 \in Draws, u2 \in Draws :
              pedestrians' = [pedestrians EXCEPT ![loop.i] = respawn(@, u1, u2)]
       ELSE UNCHANGED pedestrians
    /\ loop' = [loop EXCEPT !.i = @ + 1]
    /\ UNCHANGED <<run1, pc, mode, args, rng, templates, template, scenario, robot,
                   goal_pos, total_penalty, steps, episode, total_penalties,
                   total_steps, frame_penalty, out>>

SimpleReassignDone ==
    /\ pc = "simple_reassign"
    /\ loop.i > Len(pedestrians)
    /\ pc' = "simple_updated"
    /\ UNCHANGED <<run1, mode, args, rng, templates, template, scenario, robot, pedestrians,
                   goal_pos, total_penalty, steps, episode, total_penalties,
                   total_steps, frame_penalty, loop, out>>

-----------------------------------------------------------------------------
(* environment/robot.py *)

_collides_any(rb, obstacles) ==
    \E k \in 1..Len(obstacles) : colliderect(Hitbox(rb.x, rb.y, rb.radius), obstacles[k])

\* Robot.move_with_obstacles(delta, obstacles): x first, then y, each undone
\* if the robot then collides
move_with_obstacles(rb, delta, obstacles) ==
    LET x1 == ClampToWorld(rb.x + delta.x, rb.radius, WIDTH)
        rx == IF _collides_any([rb EXCEPT !.x = x1], obstacles)
              THEN rb ELSE [rb EXCEPT !.x = x1]
        y1 == ClampToWorld(rx.y + delta.y, rb.radius, HEIGHT)
    IN  IF _collides_any([rx EXCEPT !.y = y1], obstacles)
        THEN rx ELSE [rx EXCEPT !.y = y1]

-----------------------------------------------------------------------------
(* agent/behaviors.py.  A strategy returns a vector in thousandths.        *)

ControlModes == {"MANUAL", "NAIVE", "RANDOM", "POTENTIAL_FIELD"}

\* keys: the set of directions held down, of "up", "down", "left", "right"
get_manual_move(keys) ==
    Point(((IF "right" \in keys THEN 1 ELSE 0) - (IF "left" \in keys THEN 1 ELSE 0)) * 1000,
          ((IF "down" \in keys THEN 1 ELSE 0) - (IF "up" \in keys THEN 1 ELSE 0)) * 1000)

\* A mutant of get_naive_move: the robot heads for the goal along x only.
NaiveMoveAlongX(rb, goal) ==
    Point(IF goal.x > rb.x THEN 1000 ELSE IF goal.x < rb.x THEN -1000 ELSE 0, 0)

get_naive_move(rb, goal) ==
    LET dx == goal.x - rb.x
        dy == goal.y - rb.y
    IN  IF dx * dx + dy * dy > 0
        THEN Point(UnitMilli(dx, hypot(dx, dy)), UnitMilli(dy, hypot(dx, dy)))
        ELSE Point(0, 0)

\* random.choice([-1, 0, 1]) twice: c1, c2 are the choices of Python's global
\* random module, which no argument of the run seeds
get_random_move(c1, c2) == Point(c1 * 1000, c2 * 1000)

ATTRACT_STRENGTH == 1
REPEL_STRENGTH == 50
REPEL_RADIUS == 60

\* what pedestrian ped adds to the repulsion: REPEL_STRENGTH / dist^2 along
\* the unit vector from the pedestrian to the robot, for 0 < dist < REPEL_RADIUS
RepelFrom(rb, ped) ==
    LET dx == rb.x - ped.x
        dy == rb.y - ped.y
        d2 == dx * dx + dy * dy
        dist == hypot(dx, dy)
        strength == (REPEL_STRENGTH * 1000 * SCALE * SCALE) \div Max(d2, 1)
    IN  IF 0 < d2 /\ d2 < Sq(REPEL_RADIUS * SCALE) /\ dist > 0
        THEN Point(Trunc(UnitMilli(dx, dist) * Min(strength, 1000000), 1000),
                   Trunc(UnitMilli(dy, dist) * Min(strength, 1000000), 1000))
        ELSE Point(0, 0)

RECURSIVE RepelLoop(_, _, _, _)
RepelLoop(rb, peds, k, acc) ==
    IF k > Len(peds) THEN acc
    ELSE LET f == RepelFrom(rb, peds[k])
         IN  RepelLoop(rb, peds, k + 1, Point(acc.x + f.x, acc.y + f.y))

get_potential_field_move(rb, goal, peds) ==
    LET attract == get_naive_move(rb, goal)
        repel == RepelLoop(rb, peds, 1, Point(0, 0))
    IN  Point(attract.x * ATTRACT_STRENGTH + repel.x, attract.y * ATTRACT_STRENGTH + repel.y)

\* BEHAVIORS[MODE](robot, goal_pos, pedestrians, keys)
Behavior(m, rb, goal, peds, keys, c1, c2) ==
    CASE m = "MANUAL" -> get_manual_move(keys)
      [] m = "NAIVE" -> get_naive_move(rb, goal)
      [] m = "RANDOM" -> get_random_move(c1, c2)
      [] OTHER -> get_potential_field_move(rb, goal, peds)

\* move.normalize() * robot.speed, in centi-units, for move of non-zero length
ScaledMove(move, speed) ==
    LET k == Max(Abs(move.x), Abs(move.y)) \div 10000 + 1
        mx == Trunc(move.x, k)
        my == Trunc(move.y, k)
        len == hypot(mx, my)
    IN  IF len = 0 THEN Point(0, 0)
        ELSE Point(Trunc(mx * speed, len), Trunc(my * speed, len))

-----------------------------------------------------------------------------
(* Values of the variables a specification does not use *)

NoArgs == [scenario |-> "", pedestrians |-> 0, seed |-> -1, random_seed |-> FALSE,
           random_world |-> FALSE, config_dir |-> ""]
NoLoop == [i |-> 0, count |-> 0, attempt |-> 0, obstacles |-> <<>>, regions |-> <<>>,
           ret |-> "function", running |-> TRUE, move |-> Point(0, 0), tick |-> 0,
           events |-> 0, before |-> None, tries |-> 0]
NoRun1 == [run |-> 0, inputs |-> <<>>, trace |-> <<>>]

-----------------------------------------------------------------------------
(* SpecPenalty: compute_penalty applied to bounded robots and pedestrian   *)
(* lists.                                                                  *)

MaxPenaltyPeds == 2

\* the robot stands at the world's centre; its radius varies
PenaltyRobots ==
    { [Robot(150 * SCALE, 100 * SCALE) EXCEPT !.radius = r] : r \in {10, 12, 50} }

\* offsets of a pedestrian from the robot: distances 5, 14.74, 19, 20, 22, 34,
\* 48, 50 (on a diagonal), 50, 67 and 100 units
PenaltyOffsets ==
    { <<500, 0>>, <<1474, 0>>, <<0, 1900>>, <<2000, 0>>, <<2200, 0>>, <<0, 3400>>,
      <<4800, 0>>, <<3000, 4000>>, <<-5000, 0>>, <<6700, 0>>, <<0, -10000>> }

PenaltyPeds ==
    { [Pedestrian(150 * SCALE + o[1], 100 * SCALE + o[2], 0, 0, 0, 0)
          EXCEPT !.radius = r] : o \in PenaltyOffsets, r \in {10, 36, 50} }

PenaltyPedLists ==
    UNION { [1..n -> PenaltyPeds] : n \in 0..MaxPenaltyPeds }

InitPenalty ==
    /\ pc = "penalty"
    /\ robot \in PenaltyRobots
    /\ pedestrians \in PenaltyPedLists
    /\ frame_penalty = 0
    /\ mode = "NONE" /\ args = NoArgs /\ rng = None /\ templates = {}
    /\ template = None /\ scenario = None /\ goal_pos = None
    /\ total_penalty = 0 /\ steps = 0 /\ episode = 0
    /\ total_penalties = <<>> /\ total_steps = <<>>
    /\ loop = NoLoop /\ out = None /\ run1 = NoRun1

\* compute_penalty(robot, pedestrians); in run(): total_penalty += compute_penalty(...)
ComputePenalty ==
    /\ pc = "penalty"
    /\ frame_penalty' = compute_penalty(robot, pedestrians)
    /\ total_penalty' = IF loop.ret = "function" THEN total_penalty
                        ELSE total_penalty + compute_penalty(robot, pedestrians)
    /\ pc' = IF loop.ret = "function" THEN "penalty_done" ELSE "goal_check"
    /\ UNCHANGED <<run1, mode, args, rng, templates, template, scenario, robot,
                   pedestrians, goal_pos, steps, episode,
                   total_penalties, total_steps, loop, out>>

NextPenalty == ComputePenalty

SpecPenalty == InitPenalty /\ [][NextPenalty]_vars

\* the squared centre distance of the robot and pedestrian k
PedDist2(k) == Sq(robot.x - pedestrians[k].x) + Sq(robot.y - pedestrians[k].y)
\* the sum of radii of the robot and pedestrian k
PedR(k) == robot.radius + pedestrians[k].radius
PedIdx == 1..Len(pedestrians)

RECURSIVE SumOver(_, _)
SumOver(f, S) ==
    IF S = {} THEN 0
    ELSE LET k == CHOOSE k \in S : TRUE IN f[k] + SumOver(f, S \ {k})

\* C5 as stated: the penalty is non-negative, and zero whenever every centre
\* distance exceeds close_radius (48) - for any radii.
C5_ZeroBeyondCloseRadius ==
    pc = "penalty_done" =>
        /\ frame_penalty >= 0
        /\ (\A k \in PedIdx : PedDist2(k) > Sq(48 * SCALE)) => frame_penalty = 0

\* C5 amended: the penalty is non-negative, and zero whenever every centre
\* distance exceeds close_radius (48) and is at least that pair's sum of radii.
C5_NonNegativeZeroWhenFar ==
    pc = "penalty_done" =>
        /\ frame_penalty >= 0
        /\ (\A k \in PedIdx : /\ PedDist2(k) > Sq(48 * SCALE)
                              /\ PedDist2(k) >= Sq(PedR(k) * SCALE))
              => frame_penalty = 0

\* C5 witness: a computed penalty of zero for two pedestrians, both beyond 48
\* units and beyond the sum of radii, one of them with a sum of radii above 48.
C5_Witness ==
    /\ pc = "penalty_done"
    /\ Len(pedestrians) = 2
    /\ \A k \in PedIdx : PedDist2(k) > Sq(48 * SCALE) /\ PedDist2(k) >= Sq(PedR(k) * SCALE)
    /\ \E k \in PedIdx : PedR(k) > 48
    /\ frame_penalty = 0

\* The contribution of pedestrian k as C6 states it, in tenths: d the centre
\* distance, R the sum of radii, ratio = (R - d) / R.  With d < R and R > 0,
\* ratio < p/100 is 100 * (R - d) < p * R, decided on d squared.
C6_Contribution(k) ==
    LET d2 == PedDist2(k)
        R == PedR(k) * SCALE
        dLess(r) == r > 0 /\ d2 < r * r
        \* 100 * (R - d) < p * R  <=>  (100 - p) * R < 100 * d
        ratioLess(p) == Sq(((100 - p) * R) \div 100) < d2
    IN  CASE dLess(R) /\ ratioLess(33) -> 5
          [] dLess(R) /\ ~ratioLess(33) /\ ratioLess(66) -> 10
          [] dLess(R) /\ ~ratioLess(66) -> 15
          [] ~dLess(R) /\ dLess(48 * SCALE) -> 1
          [] OTHER -> 0

\* C6: compute_penalty is the sum over the pedestrians of the contribution of
\* each, by the three overlap tiers, the near band and zero beyond; a pair with
\* R = 20 adds 0.5 at d = 19 and 1.5 at d = 5.
C6_SumOfContributions ==
    pc = "penalty_done" =>
        /\ frame_penalty = SumOver([k \in PedIdx |-> C6_Contribution(k)], PedIdx)
        /\ (Len(pedestrians) = 1 /\ PedR(1) = 20 /\ PedDist2(1) = Sq(19 * SCALE))
              => frame_penalty = 5
        /\ (Len(pedestrians) = 1 /\ PedR(1) = 20 /\ PedDist2(1) = Sq(5 * SCALE))
              => frame_penalty = 15

\* C6 witness: a list of two pedestrians, one in the low tier at R = 20, d = 19
\* and one in the high tier at R = 20, d = 5, with penalty 0.5 + 1.5.
C6_Witness ==
    /\ pc = "penalty_done"
    /\ Len(pedestrians) = 2
    /\ PedR(1) = 20 /\ PedDist2(1) = Sq(19 * SCALE)
    /\ PedR(2) = 20 /\ PedDist2(2) = Sq(5 * SCALE)
    /\ frame_penalty = 20

\* pedestrian k stands exactly on a band boundary: at close_radius, at the sum
\* of radii, or where the overlap ratio is exactly pct / 100
AtClose(k) == PedDist2(k) = Sq(48 * SCALE)
AtOverlap(k) == PedR(k) > 0 /\ PedDist2(k) = Sq(PedR(k) * SCALE)
AtRatio(k, pct) == PedR(k) > 0 /\ PedDist2(k) = Sq((100 - pct) * PedR(k))

\* C7 as stated: on every band boundary the contribution is the smaller of the
\* two adjacent bands' penalties.
C7_BoundaryLowerTier ==
    (pc = "penalty_done" /\ Len(pedestrians) = 1) =>
        /\ AtRatio(1, 33) => frame_penalty = 5
        /\ AtRatio(1, 66) => frame_penalty = 10
        /\ AtOverlap(1) => frame_penalty = (IF PedR(1) < 48 THEN 1 ELSE 0)
        /\ (AtClose(1) /\ PedR(1) <= 48) => frame_penalty = 0

\* C7 amended: a distance equal to close_radius or to the sum of radii falls to
\* the lower-penalty side; a distance at which the overlap ratio is exactly
\* 0.33 or 0.66 falls to the higher tier (1.0, 1.5).
C7_BoundaryTiers ==
    (pc = "penalty_done" /\ Len(pedestrians) = 1) =>
        /\ AtRatio(1, 33) => frame_penalty = 10
        /\ AtRatio(1, 66) => frame_penalty = 15
        /\ AtOverlap(1) => frame_penalty = (IF PedR(1) < 48 THEN 1 ELSE 0)
        /\ (AtClose(1) /\ PedR(1) <= 48) => frame_penalty = 0

\* C7 witness: one pedestrian with the default radii (R = 22) at distance 14.74,
\* where the ratio is exactly 0.33, charged 1.0.
C7_Witness ==
    /\ pc = "penalty_done"
    /\ Len(pedestrians) = 1
    /\ PedR(1) = 22
    /\ AtRatio(1, 33)
    /\ frame_penalty = 10

-----------------------------------------------------------------------------
(* SpecScenario: build_scenario applied to bounded templates, with either  *)
(* value of randomize_world and a generator of unknown state.              *)

Template(id, obstacles, pj, sj, extra, size) ==
    [scenario_id |-> id,
     robot_start |-> Point(40, 40),
     robot_goal |-> Point(260, 160),
     obstacles |-> obstacles,
     pedestrian_spawn_regions |-> <<Rect(100, 150, 60, 40)>>,
     pedestrian_goal_regions |-> <<Rect(200, 20, 60, 40)>>,
     obstacle_jitter_px |-> pj,
     obstacle_size_jitter_px |-> sj,
     extra_obstacle_range |-> extra,
     random_obstacle_size_range |-> size]

\* Every base rectangle, clamped, is clear of both safety disks.
\*   near_start: one obstacle 55 units right of the start, position jitter 10
\*   clamped:    a rectangle to clamp in size and position, size jitter 5,
\*               0 or 1 extra obstacle
\*   extras:     no base obstacle, 1 or 2 extra obstacles of size 60
\*   crowded:    a wall through the middle, 2 extra obstacles too large to place
ScenarioTemplates ==
    { Template("near_start", <<Rect(95, 20, 40, 40)>>, 10, 0, <<0, 0>>, <<35, 110>>),
      Template("clamped", <<Rect(120, 80, 60, 40), Rect(150, -30, 10, 500)>>, 0, 5,
               <<0, 1>>, <<30, 31>>),
      Template("extras", <<>>, 0, 0, <<1, 2>>, <<60, 60>>),
      Template("crowded", <<Rect(90, 0, 120, 200)>>, 0, 0, <<2, 2>>, <<150, 150>>) }

InitScenario ==
    /\ pc = "build_scenario"
    /\ template \in ScenarioTemplates
    /\ \E b \in BOOLEAN : args = [NoArgs EXCEPT !.random_world = b]
    /\ rng = AnyRng
    /\ loop = NoLoop
    /\ scenario = None
    /\ mode = "NONE" /\ templates = {} /\ robot = None /\ pedestrians = <<>>
    /\ goal_pos = None /\ total_penalty = 0 /\ steps = 0 /\ episode = 0
    /\ total_penalties = <<>> /\ total_steps = <<>> /\ frame_penalty = 0
    /\ out = None /\ run1 = NoRun1

NextScenario == build_scenario

SpecScenario == InitScenario /\ [][NextScenario]_vars

\* C2 as stated: with randomize_world true, no obstacle of the returned
\* scenario (jittered base obstacle or extra obstacle) intersects the disk of
\* radius 45 around robot_start or around robot_goal.
C2_NoObstacleInSafetyDisks ==
    (pc = "scenario_built" /\ args.random_world) =>
        \A k \in 1..Len(scenario.obstacles) :
            /\ ~_circle_hits_rect(template.robot_start, 45, scenario.obstacles[k])
            /\ ~_circle_hits_rect(template.robot_goal, 45, scenario.obstacles[k])

\* C8: with randomize_world false the returned scenario has one obstacle per
\* base rectangle, in order, each the base rectangle with its size clamped to
\* [20, WIDTH - 20] x [20, HEIGHT - 20] and then moved inside the canvas, and
\* the generator has made no draw.
C8_FixedWorldExactBase ==
    (pc = "scenario_built" /\ ~args.random_world) =>
        /\ Len(scenario.obstacles) = Len(template.obstacles)
        /\ rng = AnyRng
        /\ \A k \in 1..Len(scenario.obstacles) :
             LET o == scenario.obstacles[k]
                 b == template.obstacles[k]
             IN  /\ o.w >= 20 /\ o.h >= 20
                 /\ o.x >= 0 /\ o.y >= 0 /\ o.x + o.w <= WIDTH /\ o.y + o.h <= HEIGHT
                 /\ o.w = Clamp(b.w, 20, WIDTH - 20)
                 /\ o.h = Clamp(b.h, 20, HEIGHT - 20)
                 /\ o.x = Clamp(b.x, 0, WIDTH - o.w)
                 /\ o.y = Clamp(b.y, 0, HEIGHT - o.h)

\* C12: every obstacle of every scenario build_scenario returns, for either
\* value of randomize_world, lies within [0, WIDTH] x [0, HEIGHT] and is at
\* least 20 wide and 20 high.
C12_ObstaclesInWorldMinSize ==
    pc = "scenario_built" =>
        \A k \in 1..Len(scenario.obstacles) :
            LET o == scenario.obstacles[k]
            IN  /\ o.w >= 20 /\ o.h >= 20
                /\ 0 <= Left(o) /\ Right(o) <= WIDTH
                /\ 0 <= Top(o) /\ Bottom(o) <= HEIGHT

\* C12 witness: a randomized scenario was returned whose base rectangle
\* reached out of the world and was brought back in, and an extra obstacle
\* was added.
C12_Witness ==
    /\ pc = "scenario_built"
    /\ args.random_world
    /\ \E k \in 1..Len(template.obstacles) :
          /\ template.obstacles[k].y < 0
          /\ scenario.obstacles[k].y = 0
    /\ Len(scenario.obstacles) > Len(template.obstacles)

\* _sample_extra_obstacles is running or has returned
InSampleExtras == pc = "attempt" \/ (pc = "scenario_return" /\ args.random_world)

\* C14: _sample_extra_obstacles tries each requested extra obstacle at most
\* 30 times, so it draws at most 30 * count candidates and appends at most
\* count obstacles, with count in [extra_min, extra_max]; an appended obstacle
\* collides with no obstacle before it in the list inflated by the 20-unit
\* margin, and the input obstacles are a prefix of the result.
C14_ExtrasBounded ==
    InSampleExtras =>
        LET extra_min == template.extra_obstacle_range[1]
            extra_max == template.extra_obstacle_range[2]
            n == Len(loop.before)
            count == IF extra_max <= 0 THEN 0 ELSE loop.count
        IN  /\ extra_max > 0 => (extra_min <= count /\ count <= extra_max)
            /\ pc = "attempt" => (loop.attempt < MaxAttempts /\ loop.i < count)
            /\ loop.tries <= MaxAttempts * count
            /\ Len(loop.obstacles) <= n + count
            /\ SubSeq(loop.obstacles, 1, n) = loop.before
            /\ \A k \in (n + 1)..Len(loop.obstacles) : \A j \in 1..(k - 1) :
                  ~colliderect(loop.obstacles[k],
                               inflate(loop.obstacles[j], InflateMargin, InflateMargin))

\* C14 witness: of two requested extra obstacles one was appended after a
\* rejected attempt and the other was given up after 30 attempts
C14_Witness ==
    /\ pc = "scenario_return"
    /\ args.random_world
    /\ loop.count = 2
    /\ Len(loop.obstacles) = Len(loop.before) + 1
    /\ loop.tries > MaxAttempts + 1

\* C8 witness: a fixed-world scenario was returned for a template with two
\* base rectangles, the second of which had to be clamped.
C8_Witness ==
    /\ pc = "scenario_built"
    /\ ~args.random_world
    /\ Len(template.obstacles) = 2
    /\ Len(scenario.obstacles) = 2
    /\ scenario.obstacles[1] = template.obstacles[1]
    /\ scenario.obstacles[2] # template.obstacles[2]

-----------------------------------------------------------------------------
(* SpecGenerate: generate_pedestrians applied to scenarios with bounded    *)
(* spawn regions, counts 0 .. MaxCount and a generator of unknown state.   *)

MaxCount == 2

\* spawn regions: wide; wide and exactly twice the margin; narrower than
\* twice the margin; narrower than the margin
SpawnRegionLists ==
    { <<Rect(100, 150, 60, 40)>>,
      <<Rect(100, 150, 60, 40), Rect(20, 100, 24, 30)>>,
      <<Rect(50, 50, 16, 40)>>,
      <<Rect(50, 50, 40, 4)>> }

InitGenerate ==
    /\ pc = "generate_pedestrians"
    /\ \E regions \in SpawnRegionLists :
         scenario = [Scenario(Template("generate", <<>>, 0, 0, <<0, 0>>, <<35, 110>>), <<>>)
                       EXCEPT !.pedestrian_spawn_regions = regions,
                              !.pedestrian_goal_regions = <<Rect(200, 20, 24, 24)>>]
    /\ \E k \in 0..MaxCount : args = [NoArgs EXCEPT !.pedestrians = k]
    /\ rng = AnyRng
    /\ loop = NoLoop
    /\ pedestrians = <<>>
    /\ mode = "NONE" /\ templates = {} /\ template = None /\ robot = None
    /\ goal_pos = None /\ total_penalty = 0 /\ steps = 0 /\ episode = 0
    /\ total_penalties = <<>> /\ total_steps = <<>> /\ frame_penalty = 0
    /\ out = None /\ run1 = NoRun1

NextGenerate == generate_pedestrians

SpecGenerate == InitGenerate /\ [][NextGenerate]_vars

\* the point p (centi-units) lies inside the rectangle r (world units)
InRegion(p, r) ==
    /\ Left(r) * SCALE <= p.x /\ p.x <= Right(r) * SCALE
    /\ Top(r) * SCALE <= p.y /\ p.y <= Bottom(r) * SCALE

\* C9 as stated: generate_pedestrians ends by returning exactly K pedestrians,
\* each starting inside the spawn region sampled for it, whatever the size of
\* the spawn regions.
C9_ExactlyKInsideRegion ==
    pc \in {"generated", "raised"} =>
        /\ pc = "generated"
        /\ Len(pedestrians) = args.pedestrians
        /\ \A k \in 1..Len(pedestrians) :
              InRegion(pedestrians[k], scenario.pedestrian_spawn_regions[loop.regions[k]])

-----------------------------------------------------------------------------
(* SpecPed: rounds of Pedestrian.update over bounded pedestrian lists, for *)
(* the obstacle-aware pedestrian (with a generator of unknown state) and   *)
(* for the simplified one.                                                 *)

MaxPeds == 2
MaxRounds == 2

\* two obstacles that block both axes of a pedestrian at (59.9, 59.9); one
\* obstacle to slide along; one obstacle a pedestrian's width from the left edge
CornerObstacles == <<Rect(69, 40, 20, 20), Rect(40, 69, 20, 20)>>
ObstacleLists == { <<>>, CornerObstacles, <<Rect(100, 30, 40, 60)>>, <<Rect(19, 59, 20, 20)>> }

\* pedestrians in mid-run: in the corner with max_speed 0.3, at the left edge
\* heading out, at rest on the same spot, next to the corner, at the bottom
\* edge heading out, beside the single obstacle, at the left edge heading out
\* and down
PedStates ==
    { [Pedestrian(5990, 5990, 20, 20, 20000, 15000) EXCEPT !.max_speed = 30],
      Pedestrian(1000, 5000, -300, 0, 1000, 5000),
      Pedestrian(1000, 5000, 0, 0, 20000, 5000),
      Pedestrian(6100, 7500, 0, 0, 29000, 1000),
      Pedestrian(15000, 18990, 0, 300, 15000, 19000),
      Pedestrian(8950, 5000, 200, 100, 29000, 6000),
      Pedestrian(1000, 4900, -200, 200, 0, 5900) }

\* the lists of 1 .. MaxPeds different members of states
PedLists(states) ==
    UNION { { f \in [1..n -> states] : \A i, j \in 1..n : i # j => f[i] # f[j] } :
            n \in 1..MaxPeds }

\* simplified pedestrians in mid-run: below the top edge heading for the goal
\* line y = -5, and in the middle of the world
SimplePedStates ==
    { Pedestrian(15000, 1100, 0, -150, 15000, -500),
      Pedestrian(10000, 10000, 0, 0, 12000, -500),
      Pedestrian(29000, 4000, 100, -100, 28000, -500) }

InitPedCommon ==
    /\ loop = [NoLoop EXCEPT !.i = 1]
    /\ rng = AnyRng
    /\ steps = 1
    /\ mode = "NONE" /\ args = NoArgs /\ templates = {} /\ template = None
    /\ robot = None /\ goal_pos = None /\ total_penalty = 0 /\ episode = 0
    /\ total_penalties = <<>> /\ total_steps = <<>> /\ frame_penalty = 0
    /\ out = None /\ run1 = NoRun1

InitPed ==
    /\ InitPedCommon
    /\ \/ /\ pc = "update_peds"
          /\ \E obstacles \in ObstacleLists :
                scenario = Scenario(Template("ped", <<>>, 0, 0, <<0, 0>>, <<35, 110>>),
                                    obstacles)
          /\ pedestrians \in PedLists(PedStates)
       \/ /\ pc = "simple_update_peds"
          /\ scenario = None
          /\ pedestrians \in PedLists(SimplePedStates)

\* the next tick's round of updates
NextRound ==
    /\ pc \in {"updated", "simple_updated"}
    /\ steps < MaxRounds
    /\ steps' = steps + 1
    /\ loop' = [loop EXCEPT !.i = 1]
    /\ pc' = IF pc = "updated" THEN "update_peds" ELSE "simple_update_peds"
    /\ UNCHANGED <<run1, mode, args, rng, templates, template, scenario, robot, pedestrians,
                   goal_pos, total_penalty, episode, total_penalties,
                   total_steps, frame_penalty, out>>

NextPed ==
    \/ UpdatePedestrian
    \/ UpdateDone
    \/ SimpleUpdatePedestrian
    \/ SimpleUpdateDone
    \/ SimpleReassign
    \/ SimpleReassignDone
    \/ NextRound

SpecPed == InitPed /\ [][NextPed]_vars

\* the pedestrians whose update has returned in the current round
Updated(at) == IF pc = at THEN 1..(loop.i - 1) ELSE {}

InWorld(p) ==
    /\ p.radius * SCALE <= p.x /\ p.x <= (WIDTH - p.radius) * SCALE
    /\ p.radius * SCALE <= p.y /\ p.y <= (HEIGHT - p.radius) * SCALE

\* C3 as stated: after any call of Pedestrian.update the velocity magnitude is
\* at most max_speed, for any parameter values.
C3_SpeedAtMostMax ==
    \A k \in Updated("update_peds") :
        Sq(pedestrians[k].vx) + Sq(pedestrians[k].vy) <= Sq(pedestrians[k].max_speed)

\* C4 as stated: after any call of update the position is within
\* [radius, WIDTH - radius] x [radius, HEIGHT - radius], for the obstacle-aware
\* and for the simplified pedestrian.
C4_InWorldBothVariants ==
    \A k \in Updated("update_peds") \cup Updated("simple_update_peds") :
        InWorld(pedestrians[k])

\* C4 amended: after any call of the obstacle-aware Pedestrian.update the
\* position is within [radius, WIDTH - radius] x [radius, HEIGHT - radius].
C4_InWorldObstacleAware ==
    \A k \in Updated("update_peds") : InWorld(pedestrians[k])

\* C4 witness: an obstacle-aware pedestrian was updated with a velocity that
\* points out of the world and stands on the edge it was clamped to.
C4_Witness ==
    \E k \in Updated("update_peds") :
        /\ pedestrians[k].vx < 0
        /\ pedestrians[k].x = pedestrians[k].radius * SCALE

\* a call of the obstacle-aware update has returned: of pedestrian
\* loop.i - 1, which was loop.before when it was called
UpdateReturned == pc = "update_peds" /\ loop.i > 1

\* the list the returned call was given
PedestriansBefore == [pedestrians EXCEPT ![loop.i - 1] = loop.before]

\* the velocity of the proposed move of the returned call
ProposedVelocity == UpdatedVelocity(PedestriansBefore, loop.i - 1)

\* the branch the returned call took
FullMoveCollides ==
    _would_collide(loop.before, loop.before.x + ProposedVelocity.x,
                   loop.before.y + ProposedVelocity.y, scenario.obstacles)
XOnlyFree ==
    ~_would_collide(loop.before, loop.before.x + ProposedVelocity.x, loop.before.y,
                    scenario.obstacles)
YOnlyFree ==
    ~_would_collide(loop.before, loop.before.x, loop.before.y + ProposedVelocity.y,
                    scenario.obstacles)

\* the returned call left the pedestrian at (x, y) clamped to the world
ClampedAt(x, y) ==
    /\ pedestrians[loop.i - 1].x = ClampToWorld(x, loop.before.radius, WIDTH)
    /\ pedestrians[loop.i - 1].y = ClampToWorld(y, loop.before.radius, HEIGHT)

\* C15: when the full proposed move of Pedestrian.update collides, the
\* pedestrian takes the x-only move if that is free (y as before), otherwise
\* the y-only move if that is free (x as before), otherwise its velocity is
\* multiplied by -0.4 on each axis and perturbed by a draw of [-0.2, 0.2) and
\* its position is the old one plus the new velocity; when the full move does
\* not collide it is applied in full; in every case the result is clamped to
\* the world bounds.
C15_SlideOrBounce ==
    UpdateReturned =>
        LET p == loop.before
            q == pedestrians[loop.i - 1]
            v == ProposedVelocity
        IN  /\ ~FullMoveCollides => ClampedAt(p.x + v.x, p.y + v.y)
            /\ (FullMoveCollides /\ XOnlyFree) => ClampedAt(p.x + v.x, p.y)
            /\ (FullMoveCollides /\ ~XOnlyFree /\ YOnlyFree) => ClampedAt(p.x, p.y + v.y)
            /\ (FullMoveCollides /\ ~XOnlyFree /\ ~YOnlyFree) =>
                  /\ Abs(q.vx - Trunc(v.x * (-4), 10)) <= 20
                  /\ Abs(q.vy - Trunc(v.y * (-4), 10)) <= 20
                  /\ ClampedAt(p.x + q.vx, p.y + q.vy)

\* the hitbox of pedestrian p intersects no obstacle
HitboxFree(p) == ~_would_collide(p, p.x, p.y, scenario.obstacles)

\* C17 as stated: a pedestrian whose hitbox intersects no obstacle before
\* Pedestrian.update intersects no obstacle after it, the bounce branch and
\* the final clamp included.
C17_FreeStaysFree ==
    (UpdateReturned /\ HitboxFree(loop.before)) => HitboxFree(pedestrians[loop.i - 1])

\* C15 witness: a pedestrian whose full move and x-only move collided slid
\* along y and kept its x
C15_Witness ==
    /\ UpdateReturned
    /\ FullMoveCollides /\ ~XOnlyFree /\ YOnlyFree
    /\ pedestrians[loop.i - 1].x = loop.before.x
    /\ pedestrians[loop.i - 1].y # loop.before.y

-----------------------------------------------------------------------------
(* main.py: run(), one action per step.  build_episode_state is the chain  *)
(* build_scenario, MakeRobot, generate_pedestrians, MakeGoal; loop.ret     *)
(* names its call site: "startup", "switch" (a scenario key) or "episode"  *)
(* (the goal was reached).                                                 *)

DEFAULT_SEED == 42
GOAL_RADIUS == 20
\* args.seed when --seed is not given
SeedNone == -1
\* an episode counter that is not yet bound
Unbound == -1

\* a scenario file of the configuration directory, by its fields
RunTemplate(id, start, goal, obstacles, spawn, goals, pj, extra) ==
    [Template(id, obstacles, pj, 0, extra, <<30, 30>>) EXCEPT
        !.robot_start = start, !.robot_goal = goal,
        !.pedestrian_spawn_regions = spawn, !.pedestrian_goal_regions = goals]

\* the directory "configs": home has its goal 24 units from its start and a
\* pedestrian goal region inside the spawn region; airport has an obstacle in
\* the robot's way, up to one extra obstacle and a spawn region 4 units high
ConfigDir(d) ==
    IF d = "configs"
    THEN { RunTemplate("home", Point(40, 40), Point(64, 40), <<Rect(150, 20, 40, 40)>>,
                       <<Rect(60, 30, 24, 44)>>, <<Rect(60, 40, 24, 24)>>, 5, <<0, 0>>),
           RunTemplate("airport", Point(40, 100), Point(260, 100), <<Rect(54, 80, 30, 40)>>,
                       <<Rect(30, 120, 24, 44), Rect(50, 50, 40, 4)>>,
                       <<Rect(200, 20, 24, 24)>>, 0, <<0, 1>>) }
    ELSE {}

ScenarioIds(ts) == { t.scenario_id : t \in ts }
TemplateOf(ts, id) == CHOOSE t \in ts : t.scenario_id = id

\* the entropy np.random.SeedSequence() may gather
Entropies == {3, 11}

\* init_rng(seed, random_seed), for the entropy gathered when random_seed
init_rng(seed, random_seed, entropy) ==
    [seed |-> IF random_seed THEN entropy
              ELSE IF seed = SeedNone THEN DEFAULT_SEED ELSE seed,
     n |-> 0]

\* rng, used_seed = init_rng(seed=args.seed, random_seed=args.random_seed)
InitRng ==
    /\ pc = "init_rng"
    /\ \E entropy \in (IF args.random_seed THEN Entropies ELSE {0}) :
         rng' = init_rng(args.seed, args.random_seed, entropy)
    /\ pc' = "load_templates"
    /\ UNCHANGED <<run1, mode, args, templates, template, scenario, robot, pedestrians,
                   goal_pos, total_penalty, steps, episode, total_penalties,
                   total_steps, frame_penalty, loop, out>>

\* templates = load_scenario_templates(Path(args.scenario_config_dir))
LoadTemplates ==
    /\ pc = "load_templates"
    /\ IF ConfigDir(args.config_dir) = {}
       THEN /\ out' = [raised |-> "ValueError: No scenario config files found"]
            /\ pc' = "raised"
            /\ UNCHANGED templates
       ELSE /\ templates' = ConfigDir(args.config_dir)
            /\ pc' = "check_scenario"
            /\ UNCHANGED out
    /\ UNCHANGED <<run1, mode, args, rng, template, scenario, robot, pedestrians,
                   goal_pos, total_penalty, steps, episode, total_penalties,
                   total_steps, frame_penalty, loop>>

\* A mutant of CheckScenario: the scenario id is tested after the robot has
\* been constructed.
CheckScenarioAfterRobot ==
    /\ pc = "check_scenario"
    /\ IF args.scenario \notin ScenarioIds(templates)
       THEN /\ out' = [raised |-> "ValueError: Unknown scenario"]
            /\ robot' = Robot(0, 0)
            /\ pc' = "raised"
       ELSE /\ pc' = "pygame_init"
            /\ UNCHANGED <<out, robot>>
    /\ UNCHANGED <<run1, mode, args, rng, templates, template, scenario, pedestrians,
                   goal_pos, total_penalty, steps, episode, total_penalties,
                   total_steps, frame_penalty, loop>>

\* if args.scenario not in templates: raise ValueError(...)
CheckScenario ==
    /\ pc = "check_scenario"
    /\ IF args.scenario \notin ScenarioIds(templates)
       THEN /\ out' = [raised |-> "ValueError: Unknown scenario"]
            /\ pc' = "raised"
       ELSE /\ pc' = "pygame_init"
            /\ UNCHANGED out
    /\ UNCHANGED <<run1, mode, args, rng, templates, template, scenario, robot, pedestrians,
                   goal_pos, total_penalty, steps, episode, total_penalties,
                   total_steps, frame_penalty, loop>>

\* pygame.init() .. current_template = templates[current_scenario_id], and the
\* call of build_episode_state
PygameInit ==
    /\ pc = "pygame_init"
    /\ template' = TemplateOf(templates, args.scenario)
    /\ loop' = [loop EXCEPT !.ret = "startup"]
    /\ pc' = "build_scenario"
    /\ UNCHANGED <<run1, mode, args, rng, templates, scenario, robot, pedestrians,
                   goal_pos, total_penalty, steps, episode, total_penalties,
                   total_steps, frame_penalty, out>>

\* build_episode_state: robot = Robot(x=scenario.robot_start[0], y=...)
MakeRobot ==
    /\ pc = "make_robot"
    /\ robot' = Robot(scenario.robot_start.x * SCALE, scenario.robot_start.y * SCALE)
    /\ pc' = "generate_pedestrians"
    /\ UNCHANGED <<run1, mode, args, rng, templates, template, scenario, pedestrians,
                   goal_pos, total_penalty, steps, episode, total_penalties,
                   total_steps, frame_penalty, loop, out>>

\* build_episode_state: goal_pos = pygame.Vector2(*scenario.robot_goal), and
\* the return to the call site
MakeGoal ==
    /\ pc = "make_goal"
    /\ goal_pos' = Point(scenario.robot_goal.x * SCALE, scenario.robot_goal.y * SCALE)
    /\ pc' = CASE loop.ret = "startup" -> "init_counters"
               [] loop.ret = "switch" -> "switch_reset"
               [] OTHER -> "episode_reset"
    /\ UNCHANGED <<run1, mode, args, rng, templates, template, scenario, robot, pedestrians,
                   total_penalty, steps, episode, total_penalties,
                   total_steps, frame_penalty, loop, out>>

\* total_penalty = 0.0 .. running = True
InitCounters ==
    /\ pc = "init_counters"
    /\ total_penalty' = 0
    /\ episode' = 0
    /\ steps' = 0
    /\ total_penalties' = <<>>
    /\ total_steps' = <<>>
    /\ loop' = [loop EXCEPT !.running = TRUE, !.tick = 0]
    /\ pc' = "events"
    /\ UNCHANGED <<run1, mode, args, rng, templates, template, scenario, robot, pedestrians,
                   goal_pos, frame_penalty, out>>

-----------------------------------------------------------------------------
(* run(): one iteration of `while running`.  The inputs of an iteration    *)
(* are at most one pygame event and the keys held down; a second run       *)
(* (run1.run = 2) is given the inputs the first run recorded.              *)

MaxTicks == 2
MaxEvents == 1

Events == {"none", "QUIT", "K_1", "K_2", "K_3"}
KeyStates == {{}, {"right"}, {"up", "left"}}

\* the scenario id a key selects
KeyScenario(ev) ==
    CASE ev = "K_1" -> "home"
      [] ev = "K_2" -> "airport"
      [] ev = "K_3" -> "shopping_center"
      [] OTHER -> ""

\* the number of iterations that are observed: a second run is observed for
\* as long as the first
TickLimit == IF run1.run = 2 THEN Len(run1.inputs) ELSE MaxTicks

\* the events the frame's `for event in pygame.event.get()` may see
EventChoices ==
    IF run1.run = 2 THEN {run1.inputs[loop.tick + 1].event}
    ELSE IF loop.events < MaxEvents THEN Events ELSE {"none"}

\* the keys pygame.key.get_pressed() may report; only get_manual_move reads them
KeyChoices ==
    IF run1.run = 2 THEN {run1.inputs[loop.tick + 1].keys}
    ELSE IF mode = "MANUAL" THEN KeyStates ELSE {{}}

\* for event in pygame.event.get(): ...
PollEvents ==
    /\ pc = "events"
    /\ loop.running
    /\ loop.tick < TickLimit
    /\ \E ev \in EventChoices :
         LET switch == KeyScenario(ev) \in ScenarioIds(templates)
         IN  /\ loop' = [loop EXCEPT
                           !.running = (ev # "QUIT"),
                           !.events = IF ev = "none" THEN @ ELSE @ + 1,
                           !.ret = IF switch THEN "switch" ELSE @]
             /\ template' = IF switch THEN TemplateOf(templates, KeyScenario(ev))
                            ELSE template
             /\ pc' = IF switch THEN "build_scenario" ELSE "control"
             /\ run1' = IF run1.run = 1
                        THEN [run1 EXCEPT !.inputs = Append(@, [event |-> ev, keys |-> {}])]
                        ELSE run1
    /\ UNCHANGED <<mode, args, rng, templates, scenario, robot, pedestrians,
                   goal_pos, total_penalty, steps, episode, total_penalties,
                   total_steps, frame_penalty, out>>

\* after a scenario key: total_penalty = 0.0; steps = 0
SwitchReset ==
    /\ pc = "switch_reset"
    /\ total_penalty' = 0
    /\ steps' = 0
    /\ pc' = "control"
    /\ UNCHANGED <<run1, mode, args, rng, templates, template, scenario, robot, pedestrians,
                   goal_pos, episode, total_penalties, total_steps, frame_penalty,
                   loop, out>>

\* keys = pygame.key.get_pressed(); move = BEHAVIORS[MODE](...); steps += 1
Control ==
    /\ pc = "control"
    /\ \E keys \in KeyChoices,
          c1 \in (IF mode = "RANDOM" THEN {-1, 0, 1} ELSE {0}),
          c2 \in (IF mode = "RANDOM" THEN {-1, 0, 1} ELSE {0}) :
         /\ loop' = [loop EXCEPT
                       !.move = Behavior(mode, robot, goal_pos, pedestrians, keys, c1, c2)]
         /\ run1' = IF run1.run = 1
                    THEN [run1 EXCEPT !.inputs[loop.tick + 1].keys = keys]
                    ELSE run1
    /\ steps' = steps + 1
    /\ pc' = "motion"
    /\ UNCHANGED <<mode, args, rng, templates, template, scenario, robot, pedestrians,
                   goal_pos, total_penalty, episode, total_penalties,
                   total_steps, frame_penalty, out>>

\* if move.length_squared() > 0: robot.move_with_obstacles(normalised move)
Motion ==
    /\ pc = "motion"
    /\ robot' = IF loop.move.x # 0 \/ loop.move.y # 0
                THEN move_with_obstacles(robot, ScaledMove(loop.move, robot.speed),
                                         scenario.obstacles)
                ELSE robot
    /\ loop' = [loop EXCEPT !.i = 1]
    /\ pc' = "update_peds"
    /\ UNCHANGED <<run1, mode, args, rng, templates, template, scenario, pedestrians,
                   goal_pos, total_penalty, steps, episode, total_penalties,
                   total_steps, frame_penalty, out>>

\* one iteration of reassign_reached_goals' loop: a pedestrian that has
\* reached its goal is given a new route, or rng.uniform raises on a region
\* narrower than twice the margin
ReassignPedestrian ==
    /\ pc = "reassign"
    /\ loop.i <= Len(pedestrians)
    /\ IF ~has_reached_goal(pedestrians[loop.i])
       THEN /\ loop' = [loop EXCEPT !.i = @ + 1]
            /\ pc' = "reassign"
            /\ UNCHANGED <<pedestrians, rng, out>>
       ELSE \E u1 \in DrawSet(rng, 0), u2 \in DrawSet(rng, 1), u3 \in DrawSet(rng, 2),
               u4 \in DrawSet(rng, 3), u5 \in DrawSet(rng, 4), u6 \in DrawSet(rng, 5),
               raises \in BOOLEAN :
              LET si == RouteSpawnIndex(scenario, u1)
                  gi == RouteGoalIndex(scenario, u2)
                  sr == scenario.pedestrian_spawn_regions[si]
                  gr == scenario.pedestrian_goal_regions[gi]
                  spawn == random_point_in_region(sr, u3, u4)
                  goal == random_point_in_region(gr, u5, u6)
              IN  /\ raises => (Inverted(sr) \/ Inverted(gr))
                  /\ IF raises
                     THEN /\ out' = [raised |-> "ValueError"]
                          /\ rng' = Advance(rng, RaiseDraws(sr, gr))
                          /\ pc' = "raised"
                          /\ UNCHANGED <<pedestrians, loop>>
                     ELSE /\ pedestrians' = [pedestrians EXCEPT ![loop.i] =
                                [@ EXCEPT !.x = spawn.x, !.y = spawn.y, !.vx = 0, !.vy = 0,
                                          !.goal_x = goal.x, !.goal_y = goal.y]]
                          /\ rng' = Advance(rng, 6)
                          /\ loop' = [loop EXCEPT !.i = @ + 1]
                          /\ pc' = "reassign"
                          /\ UNCHANGED out
    /\ UNCHANGED <<run1, mode, args, templates, template, scenario, robot,
                   goal_pos, total_penalty, steps, episode, total_penalties,
                   total_steps, frame_penalty>>

\* reassign_reached_goals returns
ReassignDone ==
    /\ pc = "reassign"
    /\ loop.i > Len(pedestrians)
    /\ pc' = "penalty"
    /\ UNCHANGED <<run1, mode, args, rng, templates, template, scenario, robot, pedestrians,
                   goal_pos, total_penalty, steps, episode, total_penalties,
                   total_steps, frame_penalty, loop, out>>

\* if distance_to_goal < GOAL_RADIUS: the episode is recorded and
\* build_episode_state is called for the next one
GoalCheck ==
    /\ pc = "goal_check"
    /\ IF DistLess(Dist2(robot, goal_pos), GOAL_RADIUS)
       THEN /\ episode' = episode + 1
            /\ total_penalties' = Append(total_penalties, total_penalty)
            /\ total_steps' = Append(total_steps, steps)
            /\ loop' = [loop EXCEPT !.ret = "episode"]
            /\ pc' = "build_scenario"
       ELSE /\ pc' = "draw"
            /\ UNCHANGED <<episode, total_penalties, total_steps, loop>>
    /\ UNCHANGED <<run1, mode, args, rng, templates, template, scenario, robot, pedestrians,
                   goal_pos, total_penalty, steps, frame_penalty, out>>

\* A mutant of EpisodeReset: the step count is carried into the next episode.
EpisodeResetKeepsSteps ==
    /\ pc = "episode_reset"
    /\ total_penalty' = 0
    /\ pc' = "draw"
    /\ UNCHANGED <<run1, mode, args, rng, templates, template, scenario, robot, pedestrians,
                   goal_pos, steps, episode, total_penalties, total_steps, frame_penalty,
                   loop, out>>

\* after the episode's build_episode_state: total_penalty = 0.0; steps = 0
EpisodeReset ==
    /\ pc = "episode_reset"
    /\ total_penalty' = 0
    /\ steps' = 0
    /\ pc' = "draw"
    /\ UNCHANGED <<run1, mode, args, rng, templates, template, scenario, robot, pedestrians,
                   goal_pos, episode, total_penalties, total_steps, frame_penalty,
                   loop, out>>

\* what a frame shows of the simulation
Snapshot ==
    [robot |-> Point(robot.x, robot.y),
     pedestrians |-> [k \in 1..Len(pedestrians) |->
                         Point(pedestrians[k].x, pedestrians[k].y)],
     obstacles |-> scenario.obstacles,
     total_penalty |-> total_penalty,
     steps |-> steps,
     episode |-> episode]

\* screen.fill .. clock.tick(FPS): the frame is drawn, the iteration ends
Draw ==
    /\ pc = "draw"
    /\ loop' = [loop EXCEPT !.tick = @ + 1]
    /\ run1' = IF run1.run = 1 THEN [run1 EXCEPT !.trace = Append(@, Snapshot)]
               ELSE run1
    /\ pc' = "events"
    /\ UNCHANGED <<mode, args, rng, templates, template, scenario, robot, pedestrians,
                   goal_pos, total_penalty, steps, episode, total_penalties,
                   total_steps, frame_penalty, out>>

\* running is False: pygame.quit()
Quit ==
    /\ pc = "events"
    /\ ~loop.running
    /\ pc' = "done"
    /\ UNCHANGED <<run1, mode, args, rng, templates, template, scenario, robot, pedestrians,
                   goal_pos, total_penalty, steps, episode, total_penalties,
                   total_steps, frame_penalty, loop, out>>

-----------------------------------------------------------------------------
(* Spec: one run of the program, for every control mode and bounded        *)
(* command lines.                                                          *)

MaxRunPeds == 1
RunSeeds == {SeedNone, 7}

\* --seed is read only without --random-seed
RunArgs ==
    { a \in [scenario : {"home", "airport", "nowhere"},
             pedestrians : 0..MaxRunPeds,
             seed : RunSeeds,
             random_seed : BOOLEAN,
             random_world : BOOLEAN,
             config_dir : {"configs", "empty"}] :
        a.random_seed => a.seed = SeedNone }

\* the process as run() finds it
Fresh ==
    /\ pc = "init_rng"
    /\ rng = None /\ templates = {} /\ template = None /\ scenario = None
    /\ robot = None /\ pedestrians = <<>> /\ goal_pos = None
    /\ total_penalty = Unbound /\ steps = Unbound /\ episode = Unbound
    /\ total_penalties = <<>> /\ total_steps = <<>> /\ frame_penalty = 0
    /\ loop = [NoLoop EXCEPT !.ret = "startup"]
    /\ out = None

Init ==
    /\ Fresh
    /\ mode \in ControlModes
    /\ args \in RunArgs
    /\ run1 = NoRun1

Tick ==
    \/ PollEvents
    \/ SwitchReset
    \/ Control
    \/ Motion
    \/ UpdatePedestrian
    \/ UpdateDone
    \/ ReassignPedestrian
    \/ ReassignDone
    \/ ComputePenalty
    \/ GoalCheck
    \/ EpisodeReset
    \/ Draw
    \/ Quit

build_episode_state ==
    \/ build_scenario
    \/ MakeRobot
    \/ generate_pedestrians
    \/ MakeGoal

Startup ==
    \/ InitRng
    \/ LoadTemplates
    \/ CheckScenario
    \/ PygameInit
    \/ InitCounters

Next ==
    \/ Startup
    \/ build_episode_state
    \/ Tick

Spec == Init /\ [][Next]_vars

\* C10 as stated: a configuration error (unknown scenario id, or no scenario
\* file) is raised before any simulation state - random generator, scenario,
\* robot, pedestrians, episode counters - is constructed.
ConfigError ==
    /\ pc = "raised"
    /\ out.raised \in {"ValueError: Unknown scenario",
                       "ValueError: No scenario config files found"}

NothingBuilt ==
    /\ template = None /\ scenario = None /\ robot = None /\ pedestrians = <<>>
    /\ goal_pos = None
    /\ total_penalty = Unbound /\ steps = Unbound /\ episode = Unbound
    /\ total_penalties = <<>> /\ total_steps = <<>>

C10_ErrorBeforeAnyState == ConfigError => (rng = None /\ NothingBuilt)

\* C10, amended: when a configuration error is raised, no scenario, robot,
\* pedestrian, goal or episode counter has been constructed; the random
\* generator has.
C10_ErrorBeforeEpisodeState == ConfigError => (rng # None /\ NothingBuilt)

\* an unknown scenario id was requested of a directory that has scenarios,
\* and the error has been raised
C10_Witness ==
    /\ pc = "raised"
    /\ out.raised = "ValueError: Unknown scenario"
    /\ args.scenario \notin ScenarioIds(templates)
    /\ templates # {}
    /\ rng # None

\* the goal check of the current iteration finds the robot at the goal
GoalReached == pc = "goal_check" /\ DistLess(Dist2(robot, goal_pos), GOAL_RADIUS)

\* the state build_episode_state returns for the current template
FreshEpisode ==
    /\ scenario.scenario_id = template.scenario_id
    /\ robot = Robot(scenario.robot_start.x * SCALE, scenario.robot_start.y * SCALE)
    /\ goal_pos = Point(scenario.robot_goal.x * SCALE, scenario.robot_goal.y * SCALE)
    /\ Len(pedestrians) = args.pedestrians
    /\ \A k \in 1..Len(pedestrians) : pedestrians[k].vx = 0 /\ pedestrians[k].vy = 0

\* C13: across ticks and scenario switches, a goal check that finds
\* distance(robot, goal) < 20 appends exactly that episode's accumulated
\* penalty and step count to the history lists and increases the episode
\* counter by one, and the iteration is drawn only after the accumulators are
\* zero and scenario, robot and pedestrians are freshly built; no other step
\* changes the history lists or the counter, and the counter always equals
\* the length of each list.
C13_EpisodeBookkeeping ==
    [][/\ GoalReached =>
            /\ total_penalties' = Append(total_penalties, total_penalty)
            /\ total_steps' = Append(total_steps, steps)
            /\ episode' = episode + 1
            /\ pc' # "draw"
       /\ (~GoalReached /\ episode # Unbound) =>
            UNCHANGED <<total_penalties, total_steps, episode>>
       /\ (pc = "episode_reset" /\ pc' = "draw") =>
            (total_penalty' = 0 /\ steps' = 0 /\ FreshEpisode')
       /\ pc' = "draw" =>
            (pc \in {"draw", "episode_reset"} \/ (pc = "goal_check" /\ ~GoalReached))
       /\ episode' # Unbound =>
            (episode' = Len(total_penalties') /\ episode' = Len(total_steps'))
      ]_vars

C13_Witness ==
    /\ pc = "draw"
    /\ episode = 1
    /\ total_steps = <<loop.tick + 1>>
    /\ Len(total_penalties) = 1
    /\ steps = 0 /\ total_penalty = 0
    /\ FreshEpisode

-----------------------------------------------------------------------------
(* SpecTwoRuns: the program is run twice on the same command line with a   *)
(* fixed seed, in the same control mode and with the same events and keys. *)
(* The first run records its inputs and the frames it draws.               *)

TwoRunArgs ==
    { a \in RunArgs : /\ ~a.random_seed
                      /\ a.seed = 7
                      /\ a.pedestrians = MaxRunPeds
                      /\ a.scenario \in {"home", "nowhere"} }

InitTwoRuns ==
    /\ Fresh
    /\ mode \in ControlModes
    /\ args \in TwoRunArgs
    /\ run1 = [NoRun1 EXCEPT !.run = 1]

\* the first run is over (it quit, raised, or was observed for MaxTicks
\* iterations): the program is started again
Restart ==
    /\ run1.run = 1
    /\ \/ pc \in {"done", "raised"}
       \/ pc = "events" /\ loop.running /\ loop.tick >= MaxTicks
    /\ run1' = [run1 EXCEPT !.run = 2]
    /\ pc' = "init_rng"
    /\ rng' = None /\ templates' = {} /\ template' = None /\ scenario' = None
    /\ robot' = None /\ pedestrians' = <<>> /\ goal_pos' = None
    /\ total_penalty' = Unbound /\ steps' = Unbound /\ episode' = Unbound
    /\ total_penalties' = <<>> /\ total_steps' = <<>> /\ frame_penalty' = 0
    /\ loop' = [NoLoop EXCEPT !.ret = "startup"]
    /\ out' = None
    /\ UNCHANGED <<mode, args>>

NextTwoRuns ==
    \/ Next
    \/ Restart

SpecTwoRuns == InitTwoRuns /\ [][NextTwoRuns]_vars

\* C1 as stated: with a fixed seed, after every iteration of the second run
\* the robot and the pedestrians are where they were after the same iteration
\* of the first run, in every control mode.
C1_SameTrajectories ==
    (run1.run = 2 /\ pc = "events" /\ loop.tick >= 1 /\ loop.tick <= Len(run1.trace)) =>
        /\ Snapshot.robot = run1.trace[loop.tick].robot
        /\ Snapshot.pedestrians = run1.trace[loop.tick].pedestrians

-----------------------------------------------------------------------------
(* SpecRobot: Robot.move_with_obstacles applied, up to MaxMoves times in a *)
(* row, to bounded robots, deltas and obstacle lists.  A Robot is          *)
(* constructed at the scenario's robot_start, which no code validates, so  *)
(* a robot may start nearer to an edge than its radius.  loop.before is    *)
(* the robot as the call found it (old_x, old_y).                          *)

MaxMoves == 2

\* in the open, left of the obstacle of RobotObstacles[2], in the top-left
\* corner, in the bottom-right corner, and 5 units from the left edge
RobotStarts ==
    { Robot(15000, 10000), Robot(4000, 10000), Robot(1200, 1200),
      Robot(28800, 18800), Robot(500, 5000) }

RobotObstacles ==
    { <<>>, <<Rect(54, 80, 30, 40)>>, <<Rect(20, 40, 20, 20), Rect(0, 30, 40, 8)>> }

\* deltas in centi-units: a step of the robot's speed on each axis and
\* diagonally, a long jump, none
RobotDeltas ==
    { Point(300, 0), Point(-300, 0), Point(0, 300), Point(0, -300), Point(212, 212),
      Point(-212, -212), Point(5000, -5000), Point(0, 0) }

InitRobot ==
    /\ pc = "move_with_obstacles"
    /\ robot \in RobotStarts
    /\ \E obstacles \in RobotObstacles :
          scenario = Scenario(Template("robot", <<>>, 0, 0, <<0, 0>>, <<35, 110>>), obstacles)
    /\ \E delta \in RobotDeltas : loop = [NoLoop EXCEPT !.move = delta, !.i = 1]
    /\ rng = None /\ pedestrians = <<>>
    /\ mode = "NONE" /\ args = NoArgs /\ templates = {} /\ template = None
    /\ goal_pos = None /\ total_penalty = 0 /\ steps = 0 /\ episode = 0
    /\ total_penalties = <<>> /\ total_steps = <<>> /\ frame_penalty = 0
    /\ out = None /\ run1 = NoRun1

\* robot.move_with_obstacles(delta, scenario.obstacles)
MoveWithObstacles ==
    /\ pc = "move_with_obstacles"
    /\ robot' = move_with_obstacles(robot, loop.move, scenario.obstacles)
    /\ loop' = [loop EXCEPT !.before = robot]
    /\ pc' = "moved"
    /\ UNCHANGED <<run1, mode, args, rng, templates, template, scenario, pedestrians,
                   goal_pos, total_penalty, steps, episode, total_penalties,
                   total_steps, frame_penalty, out>>

\* the caller chooses the next delta
NextMove ==
    /\ pc = "moved"
    /\ loop.i < MaxMoves
    /\ \E delta \in RobotDeltas : loop' = [loop EXCEPT !.move = delta, !.i = @ + 1]
    /\ pc' = "move_with_obstacles"
    /\ UNCHANGED <<run1, mode, args, rng, templates, template, scenario, robot, pedestrians,
                   goal_pos, total_penalty, steps, episode, total_penalties,
                   total_steps, frame_penalty, out>>

NextRobot ==
    \/ MoveWithObstacles
    \/ NextMove

SpecRobot == InitRobot /\ [][NextRobot]_vars

RobotInWorld(rb) ==
    /\ rb.radius * SCALE <= rb.x /\ rb.x <= (WIDTH - rb.radius) * SCALE
    /\ rb.radius * SCALE <= rb.y /\ rb.y <= (HEIGHT - rb.radius) * SCALE

\* C11 as stated: after every Robot.move_with_obstacles call the robot is
\* within [radius, WIDTH - radius] x [radius, HEIGHT - radius], and a robot
\* whose hitbox intersected no obstacle before the call intersects none after.
C11_InWorldAndFree ==
    pc = "moved" =>
        /\ RobotInWorld(robot)
        /\ ~_collides_any(loop.before, scenario.obstacles)
              => ~_collides_any(robot, scenario.obstacles)

-----------------------------------------------------------------------------
(* SpecNaive: the iterations of run() in NAIVE mode from a robot and a     *)
(* goal of its own, with no pedestrian and no event, until the goal check  *)
(* ends the episode.  The loop of run() goes on for as long as `running`,  *)
(* hence the weak fairness.                                                *)

MaxNaiveTicks == 24

NaiveStarts == { Robot(4000, 10000), Robot(5500, 6000), Robot(1200, 4000), Robot(9000, 11500) }
NaiveGoals == { Point(7000, 10000), Point(500, 500), Point(6000, 4000) }

\* no obstacle; an obstacle beside the line from (40, 100) to (70, 100), near
\* enough for the robot's hitbox; an obstacle far from every path
NaiveObstacles == { <<>>, <<Rect(54, 80, 30, 15)>>, <<Rect(200, 150, 30, 30)>> }

InitNaive ==
    /\ pc = "control"
    /\ mode = "NAIVE"
    /\ robot \in NaiveStarts
    /\ goal_pos \in NaiveGoals
    /\ \E obstacles \in NaiveObstacles :
          scenario = Scenario(Template("naive", <<>>, 0, 0, <<0, 0>>, <<35, 110>>), obstacles)
    /\ pedestrians = <<>>
    /\ total_penalty = 0 /\ steps = 0 /\ episode = 0
    /\ total_penalties = <<>> /\ total_steps = <<>> /\ frame_penalty = 0
    /\ loop = [NoLoop EXCEPT !.ret = "startup", !.i = 1]
    /\ args = NoArgs /\ rng = None /\ templates = {} /\ template = None
    /\ out = None /\ run1 = NoRun1

\* the frame is drawn and the next iteration finds no event
NaiveNextTick ==
    /\ pc = "draw"
    /\ steps < MaxNaiveTicks
    /\ loop' = [loop EXCEPT !.tick = @ + 1]
    /\ pc' = "control"
    /\ UNCHANGED <<run1, mode, args, rng, templates, template, scenario, robot, pedestrians,
                   goal_pos, total_penalty, steps, episode, total_penalties,
                   total_steps, frame_penalty, out>>

NextNaive ==
    \/ Control
    \/ Motion
    \/ UpdateDone
    \/ ReassignDone
    \/ ComputePenalty
    \/ GoalCheck
    \/ NaiveNextTick

\* Every phase of the loop is left.  For the motion phase this is stated on
\* the program counter, which only Motion takes from "motion" to
\* "update_peds".
SpecNaive ==
    /\ InitNaive
    /\ [][NextNaive]_vars
    /\ WF_vars(pc # "motion" /\ NextNaive)
    /\ WF_pc(pc = "motion" /\ pc' = "update_peds")

\* distance(robot, goal) in centi-units, rounded down
NaiveDist(rb) == hypot(goal_pos.x - rb.x, goal_pos.y - rb.y)

\* the segment from a to b (centi-units) meets the rectangle r (world units):
\* their bounding boxes meet and the corners of r are not all on one side
Cross(a, b, cx, cy) == (b.x - a.x) * (cy - a.y) - (b.y - a.y) * (cx - a.x)
SegmentMeetsRect(a, b, r) ==
    LET corners == { <<Left(r) * SCALE, Top(r) * SCALE>>, <<Right(r) * SCALE, Top(r) * SCALE>>,
                     <<Left(r) * SCALE, Bottom(r) * SCALE>>,
                     <<Right(r) * SCALE, Bottom(r) * SCALE>> }
    IN  /\ Min(a.x, b.x) <= Right(r) * SCALE /\ Max(a.x, b.x) >= Left(r) * SCALE
        /\ Min(a.y, b.y) <= Bottom(r) * SCALE /\ Max(a.y, b.y) >= Top(r) * SCALE
        /\ \E c \in corners : Cross(a, b, c[1], c[2]) >= 0
        /\ \E c \in corners : Cross(a, b, c[1], c[2]) <= 0

\* the goal is inside the world and no obstacle is on the straight line from
\* the robot to it
LineClear ==
    /\ 0 <= goal_pos.x /\ goal_pos.x <= WIDTH * SCALE
    /\ 0 <= goal_pos.y /\ goal_pos.y <= HEIGHT * SCALE
    /\ \A k \in 1..Len(scenario.obstacles) :
          ~SegmentMeetsRect(robot, goal_pos, scenario.obstacles[k])

\* the rectangle spanned by the robot's hitbox where it is and at the goal
SweepBox ==
    LET h1 == Hitbox(robot.x, robot.y, robot.radius)
        h2 == Hitbox(goal_pos.x, goal_pos.y, robot.radius)
    IN  Rect(Min(h1.x, h2.x), Min(h1.y, h2.y), Abs(h1.x - h2.x) + h1.w, Abs(h1.y - h2.y) + h1.h)

\* robot and goal are at least the robot's radius inside the world and no
\* obstacle meets the rectangle the hitbox sweeps
PathClear ==
    /\ RobotInWorld(robot)
    /\ RobotInWorld([robot EXCEPT !.x = goal_pos.x, !.y = goal_pos.y])
    /\ \A k \in 1..Len(scenario.obstacles) : ~colliderect(SweepBox, scenario.obstacles[k])

\* the motion phase of a tick that starts at distance 20 or more
FarMotion == pc = "motion" /\ NaiveDist(robot) >= GOAL_RADIUS * SCALE

\* the step took the robot nearer to the goal by its speed, to within 0.02
\* units of rounding, and not past the goal
ApproachedBySpeed ==
    /\ Abs(NaiveDist(robot') - (NaiveDist(robot) - robot.speed)) <= 2
    /\ (goal_pos.x - robot'.x) * (goal_pos.x - robot.x)
         + (goal_pos.y - robot'.y) * (goal_pos.y - robot.y) > 0

\* C18 as stated: in NAIVE mode with no obstacle on the straight line from the
\* robot to a goal inside the world bounds, the robot's distance to the goal
\* decreases by the robot's speed on every tick while it is at least 20 and
\* the robot does not pass the goal, so a goal check with distance < 20 is
\* eventually reached.
C18_ReachesGoalOnClearLine ==
    /\ [][(FarMotion /\ LineClear) => ApproachedBySpeed]_vars
    /\ ((pc = "control" /\ LineClear) ~> GoalReached)

\* C18 amended: in NAIVE mode, with robot and goal at least the robot's radius
\* inside the world bounds and no obstacle meeting the rectangle spanned by
\* the robot's hitbox at its position and at the goal, the distance to the
\* goal decreases by the robot's speed on every tick while it is at least 20
\* and the robot does not pass the goal, so a goal check with distance < 20
\* is eventually reached.
C18_ReachesGoalOnClearPath ==
    /\ [][(FarMotion /\ PathClear) => (ApproachedBySpeed /\ PathClear')]_vars
    /\ ((pc = "control" /\ PathClear) ~> GoalReached)

\* C18 witness: the robot has come from more than 80 units away, with an
\* obstacle in the world and none in its way, and the goal check ends the
\* episode
C18_Witness ==
    /\ GoalReached
    /\ PathClear
    /\ steps > 20
    /\ scenario.obstacles # <<>>
====
